---- MODULE Spec2Model ----
(***************************************************************************)
(* Model of the AudioSeparationTool core: the AsyncProcessor orchestrator  *)
(* (src/asyncprocessor.cpp), the SeparationWorker pipeline                 *)
(* (src/separationworker.cpp), the HTSATWorker feature job                 *)
(* (src/htsatworker.cpp) and the WAV writer (src/audioserializer.cpp).     *)
(*                                                                         *)
(* Sample counts are scaled: the program's clip of 320000 samples is       *)
(* modelled by a clip of ClipBound samples, with the same overlap rate     *)
(* 1/2, so that every relation between a length L, the step and the clip   *)
(* (L < step, step < L < clip, L a multiple of the step, L > clip) occurs. *)
(* Float arithmetic is modelled by exact rationals: a sample of an         *)
(* overlap-add output is a pair <<numerator, denominator>> in lowest terms.*)
(***************************************************************************)
EXTENDS Integers, Sequences, FiniteSets, TLC

\* ------------------------------------------------------------------ bounds
\* paths handed to the locker
MaxPaths == 3
\* folders, file names per folder and single-file widgets of the repository
MaxDirs == 2
MaxNames == 2
MaxWidgets == 3
\* operations of the temporary-file specification, and chunk files of one
\* file-based overlap-add
MaxOps == 2
MaxChunkFiles == 3
\* chunks of one overlap-add of the overlap-add specification, and their
\* largest sample
MaxOlaChunks == 2
MaxSample == 1
ClipBound == 6
MaxLen == 8
MaxConst == 2
MaxFiles == 2
MaxWork == 4
FeatureDimBound == 2
MaxEmb == 1
MaxTaken == 2

\* --------------------------------------------------------------- constants
\* Constants::AUDIO_OVERLAP_RATE = 0.5f, as the rational OverlapNum/OverlapDen
OverlapNum == 1
OverlapDen == 2
\* progress offsets passed by processSingleFileStereo to processChannel
LeftOffset == 0
RightOffset == 50

\* SeparationWorker::m_clipSamples (Constants::AUDIO_CLIP_SAMPLES, scaled)
m_clipSamples == ClipBound
\* ZeroShotASPFeatureExtractor::EXPECTED_CONDITION_DIM, 2048 in the source,
\* scaled to FeatureDimBound
EXPECTED_CONDITION_DIM == FeatureDimBound

\* ---------------------------------------------------------------- tensors
\* A tensor is its shape and its row-major data; torch::Tensor() is Undefined.
Undefined == [defined |-> FALSE, shape |-> <<>>, data |-> <<>>]
Tensor(shape, data) == [defined |-> TRUE, shape |-> shape, data |-> data]

RECURSIVE Prod(_)
Prod(s) == IF s = <<>> THEN 1 ELSE Head(s) * Prod(Tail(s))

\* Tensor::numel(): 0 for an undefined tensor
Numel(t) == IF t.defined THEN Prod(t.shape) ELSE 0
\* Tensor::dim()
Dim(t) == Len(t.shape)
\* Tensor::size(d), d counted from 0
Size(t, d) == t.shape[d + 1]

\* 1-D slice [from, to) of a 1-D tensor (indices from 0)
Slice1(t, from, to) ==
    Tensor(<<to - from>>, SubSeq(t.data, from + 1, to))
\* torch::zeros({n})
Zeros1(n) == Tensor(<<n>>, [k \in 1..n |-> 0])
\* torch::cat of two 1-D tensors along dimension 0
Cat1(a, b) == Tensor(<<Size(a, 0) + Size(b, 0)>>, a.data \o b.data)
\* t.unsqueeze(0).unsqueeze(2) of a 1-D tensor: (T) -> (1, T, 1)
To3D(t) == Tensor(<<1, Size(t, 0), 1>>, t.data)

RECURSIVE Gcd(_, _)
Gcd(a, b) == IF b = 0 THEN a ELSE Gcd(b, a % b)
\* the rational n/d (n >= 0, d > 0) in lowest terms
Rat(n, d) == LET g == Gcd(n, d) IN <<n \div g, d \div g>>

\* the step taken as the whole chunk: the overlap is left out
StepOf_NoOverlap(n) == n

\* static_cast<int64_t>(n * (1.0f - m_overlapRate)) for n >= 0
StepOf(n) == (n * (OverlapDen - OverlapNum)) \div OverlapDen
\* static_cast<int64_t>(n * m_overlapRate) for n >= 0
FadeOf(n) == (n * OverlapNum) \div OverlapDen

\* ------------------------------------------------------------ worker signals
\* SeparationWorker::error / HTSATWorker::error
Err(msg) == [sig |-> "error", msg |-> msg]
\* SeparationWorker::progressUpdated
Progress(v) == [sig |-> "progress", value |-> v]
\* SeparationWorker::separationFinished
SeparationFinished(audioPath, featureName, t) ==
    [sig |-> "separationFinished", audioPath |-> audioPath,
     featureName |-> featureName, tensor |-> t]

\* ------------------------------------------------ the environment of a file
\* What the file system, the decoder and the two models do for one mixture
\* file: everything processSingleFile reads from outside the program.
\*   readable  QFileInfo::exists && isReadable of the mixture
\*   loadOk    the first loadAudio decodes it;  reloadOk  the stereo reload does
\*   channels, len, left, right   the decoded waveform (kind 0: the ramp
\*             1, 2, 3, ...; kind c > 0: the constant c)
\*   modelOk   loadModelFromResource or the loadModel fallback succeeds
\*   feature   what loadFeature finds at output_features/<name>.txt ("fewer"
\*             and "more": a file of numbers, one fewer or one more than
\*             EXPECTED_CONDITION_DIM)
\*   sepAt, sepKind   the sepAt-th forward call of the file (0: none) throws
\*             c10::Error, returns an empty tensor, or returns a chunk that is
\*             one sample longer than its input
\*   gain      the separator returns gain * its input otherwise
FeatureKinds == {"ok", "missing", "openfail", "badfloat", "empty", "fewer", "more"}
SepKinds == {"throw", "empty", "long"}

\* sample n (from 0) of a channel of the given kind
Sample(kind, n) == IF kind = 0 THEN n + 1 ELSE kind

\* AudioPreprocessUtils::loadAudio(path, forceMono = false) at 32 kHz:
\* torch::empty({0}) on a decode failure, else (frames, channels) interleaved
LoadAudio(env, ok) ==
    IF ~ok THEN Tensor(<<0>>, <<>>)
    ELSE Tensor(<<env.len, env.channels>>,
                [k \in 1..(env.len * env.channels) |->
                    IF (k - 1) % env.channels = 1
                    THEN Sample(env.right, (k - 1) \div env.channels)
                    ELSE Sample(env.left, (k - 1) \div env.channels)])

\* waveform.index({Slice(), c}) of a (frames, channels) tensor: column c
Column(t, c) ==
    Tensor(<<Size(t, 0)>>,
           [n \in 1..Size(t, 0) |-> t.data[(n - 1) * Size(t, 1) + c + 1]])

\* SeparationWorker::loadFeature: the (1, feature_size) tensor, or an error
\* signal and an undefined tensor
loadFeature(env) ==
    CASE env.feature = "missing" ->
           [t |-> Undefined,
            emits |-> <<Err("Feature file does not exist or is not readable")>>]
      [] env.feature = "openfail" ->
           [t |-> Undefined, emits |-> <<Err("Failed to open feature file")>>]
      [] env.feature = "badfloat" ->
           [t |-> Undefined,
            emits |-> <<Err("Invalid float value in feature file")>>]
      [] env.feature = "empty" ->
           [t |-> Undefined,
            emits |-> <<Err("Feature file is empty or invalid format")>>]
      [] OTHER ->
           LET count == CASE env.feature = "fewer" -> EXPECTED_CONDITION_DIM - 1
                          [] env.feature = "more" -> EXPECTED_CONDITION_DIM + 1
                          [] OTHER -> EXPECTED_CONDITION_DIM
           IN [t |-> Tensor(<<1, count>>, [k \in 1..count |-> 1]), emits |-> <<>>]

\* ZeroShotASPFeatureExtractor::forward, call number k of the file: the
\* separated chunk, an empty tensor, or a thrown c10::Error; a condition that
\* is not (1, EXPECTED_CONDITION_DIM) makes the call fail
forward(waveform, condition, env, k) ==
    IF Size(condition, 1) # EXPECTED_CONDITION_DIM
    THEN [threw |-> TRUE, t |-> Undefined]
    ELSE IF env.sepAt = k /\ env.sepKind = "throw"
    THEN [threw |-> TRUE, t |-> Undefined]
    ELSE IF env.sepAt = k /\ env.sepKind = "empty"
    THEN [threw |-> FALSE, t |-> Undefined]
    ELSE IF env.sepAt = k /\ env.sepKind = "long"
    THEN [threw |-> FALSE,
          t |-> Tensor(<<1, Size(waveform, 1) + 1, 1>>,
                       [n \in 1..(Size(waveform, 1) + 1) |-> 0])]
    ELSE [threw |-> FALSE,
          t |-> Tensor(waveform.shape,
                       [n \in 1..Len(waveform.data) |->
                           env.gain * waveform.data[n]])]

\* SeparationWorker::processChunk (the extractor is never null here)
processChunk(waveform, condition, env, k) ==
    IF Dim(waveform) # 3 \/ Size(waveform, 0) # 1 \/ Size(waveform, 2) # 1
       \/ Size(waveform, 1) # m_clipSamples
    THEN [t |-> Undefined,
          emits |-> <<Err("Invalid waveform shape for processChunk")>>]
    ELSE IF Dim(condition) # 2 \/ Size(condition, 0) # 1
    THEN [t |-> Undefined,
          emits |-> <<Err("Invalid condition shape for processChunk")>>]
    ELSE LET output == forward(waveform, condition, env, k)
         IN IF output.threw
            THEN [t |-> Undefined, emits |-> <<Err("Extractor forward error")>>]
            ELSE [t |-> output.t, emits |-> <<>>]

\* ------------------------------------------------------------- overlap-add
\* denominator of the window values: linspace(0, 1, fade) steps by 1/(fade-1)
WinDen(fadeLength) == IF fadeLength > 1 THEN fadeLength - 1 ELSE 1

\* numerator (over WinDen) of window[k], k from 0: ones, then the fade-in
\* written over [0, fade), then the fade-out written over [size-fade, size)
Window(chunkSize, k) ==
    LET fadeLength == FadeOf(chunkSize)
        D == WinDen(fadeLength)
    IN IF fadeLength > 0 /\ k >= chunkSize - fadeLength
       THEN (IF fadeLength = 1 THEN D ELSE D - (k - (chunkSize - fadeLength)))
       ELSE IF fadeLength > 0 /\ k < fadeLength
       THEN (IF fadeLength = 1 THEN 0 ELSE k)
       ELSE D

\* the loop of doOverlapAdd placing the chunks from the end of the output
\* backwards: chunk i at (Len(chunks) - i) * step
RECURSIVE OverlapAddLoop_FromEnd(_, _, _, _, _, _)
OverlapAddLoop_FromEnd(chunks, i, chunkSize, step, output, weight) ==
    IF i > Len(chunks) THEN [ok |-> TRUE, output |-> output, weight |-> weight]
    ELSE LET chunk == chunks[i]
             start == (Len(chunks) - i) * step
             end == start + chunkSize
         IN IF Size(chunk, 1) # chunkSize
            THEN [ok |-> FALSE, output |-> output, weight |-> weight]
            ELSE OverlapAddLoop_FromEnd(chunks, i + 1, chunkSize, step,
                    [n \in DOMAIN output |->
                        IF n >= start /\ n < end
                        THEN output[n]
                             + chunk.data[n - start + 1] * Window(chunkSize, n - start)
                        ELSE output[n]],
                    [n \in DOMAIN weight |->
                        IF n >= start /\ n < end
                        THEN weight[n] + Window(chunkSize, n - start)
                        ELSE weight[n]])

\* the loop of doOverlapAdd from chunk i on: adds chunk * window to
\* output[start, end) and window to weight[start, end); stops with ok = FALSE
\* at a chunk whose size differs from the first one's
RECURSIVE OverlapAddLoop(_, _, _, _, _, _)
OverlapAddLoop(chunks, i, chunkSize, step, output, weight) ==
    IF i > Len(chunks) THEN [ok |-> TRUE, output |-> output, weight |-> weight]
    ELSE LET chunk == chunks[i]
             start == (i - 1) * step
             end == start + chunkSize
         IN IF Size(chunk, 1) # chunkSize
            THEN [ok |-> FALSE, output |-> output, weight |-> weight]
            ELSE OverlapAddLoop(chunks, i + 1, chunkSize, step,
                    [n \in DOMAIN output |->
                        IF n >= start /\ n < end
                        THEN output[n]
                             + chunk.data[n - start + 1] * Window(chunkSize, n - start)
                        ELSE output[n]],
                    [n \in DOMAIN weight |->
                        IF n >= start /\ n < end
                        THEN weight[n] + Window(chunkSize, n - start)
                        ELSE weight[n]])

\* the accumulators of doOverlapAdd after its loop, before normalisation
OverlapAddAccumulate(chunks) ==
    LET chunkSize == Size(chunks[1], 1)
        step == StepOf(chunkSize)
        totalLength == step * (Len(chunks) - 1) + chunkSize
    IN OverlapAddLoop(chunks, 1, chunkSize, step,
                      [n \in 0..(totalLength - 1) |-> 0],
                      [n \in 0..(totalLength - 1) |-> 0])

\* SeparationWorker::doOverlapAdd(const std::vector<torch::Tensor>&):
\* the (1, totalLength, 1) tensor output / weight with zero weights replaced
\* by 1, or an error signal and an undefined tensor
doOverlapAdd(chunks) ==
    IF chunks = <<>>
    THEN [t |-> Undefined, emits |-> <<Err("No chunks to overlap-add")>>]
    ELSE LET chunkSize == Size(chunks[1], 1)
             D == WinDen(FadeOf(chunkSize))
             acc == OverlapAddAccumulate(chunks)
             totalLength == StepOf(chunkSize) * (Len(chunks) - 1) + chunkSize
         IN IF ~acc.ok
            THEN [t |-> Undefined,
                  emits |-> <<Err("Chunk size mismatch in doOverlapAdd")>>]
            ELSE [t |-> Tensor(<<1, totalLength, 1>>,
                        [n \in 1..totalLength |->
                            Rat(acc.output[n - 1],
                                IF acc.weight[n - 1] = 0 THEN D
                                ELSE acc.weight[n - 1])]),
                  emits |-> <<>>]

\* result.slice(1, 0, n) of a (1, T, 1) tensor
Slice3(t, n) ==
    Tensor(<<1, IF n < Size(t, 1) THEN n ELSE Size(t, 1), 1>>,
           SubSeq(t.data, 1, IF n < Size(t, 1) THEN n ELSE Size(t, 1)))

\* ------------------------------------------------------ the mono pipeline
\* the chunk cut without the zero padding of the last chunk
CutChunk_Unpadded(waveform, pos) ==
    LET totalSamples == Size(waveform, 0)
        endPos == pos + m_clipSamples
    IN Slice1(waveform, pos, IF endPos <= totalSamples THEN endPos ELSE totalSamples)

\* the chunk cut at pos: waveform[pos, pos + clip), zero-padded past the end
CutChunk(waveform, pos) ==
    LET totalSamples == Size(waveform, 0)
        endPos == pos + m_clipSamples
    IN IF endPos <= totalSamples
       THEN Slice1(waveform, pos, endPos)
       ELSE Cat1(Slice1(waveform, pos, totalSamples), Zeros1(endPos - totalSamples))

\* static_cast<int>(100.0 * (pos + m_clipSamples) / totalSamples), capped at 100
MonoProgress(pos, totalSamples) ==
    LET progress == (100 * (pos + m_clipSamples)) \div totalSamples
    IN IF progress > 100 THEN 100 ELSE progress

\* the loop of processSingleFile with the bound off by one
\* (pos <= totalSamples): a chunk is also cut at pos = totalSamples
RECURSIVE MonoChunkLoop_Inclusive(_, _, _, _, _, _)
MonoChunkLoop_Inclusive(waveform, condition, env, pos, step, acc) ==
    IF ~(pos <= Size(waveform, 0)) THEN acc
    ELSE LET chunk == To3D(CutChunk(waveform, pos))
             r == processChunk(chunk, condition, env, Len(acc.inputs) + 1)
         IN IF ~r.t.defined \/ Numel(r.t) = 0
            THEN [ok |-> FALSE, inputs |-> Append(acc.inputs, chunk),
                  chunks |-> acc.chunks,
                  emits |-> acc.emits \o r.emits
                            \o <<Err("Processing chunk failed")>>]
            ELSE MonoChunkLoop_Inclusive(waveform, condition, env, pos + step, step,
                  [ok |-> TRUE, inputs |-> Append(acc.inputs, chunk),
                   chunks |-> Append(acc.chunks, r.t),
                   emits |-> acc.emits \o r.emits
                             \o <<Progress(MonoProgress(pos, Size(waveform, 0)))>>])

\* the while loop of processSingleFile from position pos on; acc collects the
\* chunks given to the separator (inputs), its outputs (chunks) and the signals
RECURSIVE MonoChunkLoop(_, _, _, _, _, _)
MonoChunkLoop(waveform, condition, env, pos, step, acc) ==
    IF ~(pos < Size(waveform, 0)) THEN acc
    ELSE LET chunk == To3D(CutChunk(waveform, pos))
             r == processChunk(chunk, condition, env, Len(acc.inputs) + 1)
         IN IF ~r.t.defined \/ Numel(r.t) = 0
            THEN [ok |-> FALSE, inputs |-> Append(acc.inputs, chunk),
                  chunks |-> acc.chunks,
                  emits |-> acc.emits \o r.emits
                            \o <<Err("Processing chunk failed")>>]
            ELSE MonoChunkLoop(waveform, condition, env, pos + step, step,
                  [ok |-> TRUE, inputs |-> Append(acc.inputs, chunk),
                   chunks |-> Append(acc.chunks, r.t),
                   emits |-> acc.emits \o r.emits
                             \o <<Progress(MonoProgress(pos, Size(waveform, 0)))>>])

NoChunks == [ok |-> TRUE, inputs |-> <<>>, chunks |-> <<>>, emits |-> <<>>]

\* the result of a pipeline run that ends in an error return (olas: the chunk
\* vectors given to doOverlapAdd by a run that succeeds, one per channel)
Failed(emits, inputs, chunks) ==
    [emits |-> emits, inputs |-> inputs, chunks |-> chunks, olas |-> <<>>]

\* processSingleFile without its trim: the overlap-added tensor is kept whole
MonoTrim_Untrimmed(finalTensor, originalLength) == finalTensor

\* the trim of processSingleFile: slice to originalLength if longer
MonoTrim(finalTensor, originalLength) ==
    IF Size(finalTensor, 1) > originalLength
    THEN Slice3(finalTensor, originalLength)
    ELSE finalTensor

\* the mono part of processSingleFile once the overlap-add has run: the
\* result is trimmed and emitted
MonoAdded(env, featureName, originalLength, loop, ola) ==
    IF ~ola.t.defined \/ Numel(ola.t) = 0
    THEN Failed(loop.emits \o ola.emits \o <<Err("Overlap-add failed")>>,
                loop.inputs, loop.chunks)
    ELSE [emits |-> loop.emits \o
            <<SeparationFinished(env.path, featureName,
                                 MonoTrim(ola.t, originalLength))>>,
          inputs |-> loop.inputs,
          chunks |-> loop.chunks,
          olas |-> <<loop.chunks>>]

\* the mono part of processSingleFile once the chunk loop has run
MonoLooped(env, featureName, originalLength, loop) ==
    IF ~loop.ok
    THEN Failed(loop.emits, loop.inputs, loop.chunks)
    ELSE MonoAdded(env, featureName, originalLength, loop,
                   doOverlapAdd(loop.chunks))

\* the mono part of processSingleFile once the feature f is loaded
MonoLoaded(env, loaded, featureName, f) ==
    IF ~f.t.defined \/ Numel(f.t) = 0
    THEN Failed(f.emits \o <<Err("Failed to load feature tensor")>>, <<>>, <<>>)
    ELSE IF ~(Dim(loaded) = 2 /\ Size(loaded, 1) = 1) /\ Dim(loaded) # 1
    THEN Failed(<<Err("Loaded waveform tensor must be 1D for mono processing")>>,
                <<>>, <<>>)
    ELSE LET waveform == IF Dim(loaded) = 2 THEN Column(loaded, 0)
                         ELSE loaded
             originalLength == Size(waveform, 0)
             step == StepOf(m_clipSamples)
         IN IF step <= 0
            THEN Failed(<<Err("Invalid step size calculated from clipSamples and overlapRate")>>,
                        <<>>, <<>>)
            ELSE MonoLooped(env, featureName, originalLength,
                            MonoChunkLoop(waveform, f.t, env, 0, step, NoChunks))

\* the mono part of processSingleFile, from the model load on
processMono(env, loaded, featureName) ==
    IF ~env.modelOk
    THEN Failed(<<Err("Failed to load separation model")>>, <<>>, <<>>)
    ELSE MonoLoaded(env, loaded, featureName, loadFeature(env))

\* ---------------------------------------------------- the stereo pipeline
\* static_cast<int>(progressOffset + 50.0 * (pos + m_clipSamples) / totalSamples),
\* capped at 100
ChannelProgress(progressOffset, pos, totalSamples) ==
    LET progress == progressOffset + (50 * (pos + m_clipSamples)) \div totalSamples
    IN IF progress > 100 THEN 100 ELSE progress

\* the while loop of processChannel from position pos on; base is the number
\* of forward calls made for the file before this channel
RECURSIVE ChannelChunkLoop(_, _, _, _, _, _, _, _)
ChannelChunkLoop(channelWaveform, condition, env, progressOffset, base, pos, step, acc) ==
    IF ~(pos < Size(channelWaveform, 0)) THEN acc
    ELSE LET chunk == To3D(CutChunk(channelWaveform, pos))
             r == processChunk(chunk, condition, env, base + Len(acc.inputs) + 1)
         IN IF ~r.t.defined \/ Numel(r.t) = 0
            THEN [ok |-> FALSE, inputs |-> Append(acc.inputs, chunk),
                  chunks |-> acc.chunks,
                  emits |-> acc.emits \o r.emits
                            \o <<Err("Processing chunk failed")>>]
            ELSE ChannelChunkLoop(channelWaveform, condition, env, progressOffset,
                  base, pos + step, step,
                  [ok |-> TRUE, inputs |-> Append(acc.inputs, chunk),
                   chunks |-> Append(acc.chunks, r.t),
                   emits |-> acc.emits \o r.emits
                             \o <<Progress(ChannelProgress(progressOffset, pos,
                                                           Size(channelWaveform, 0)))>>])

\* the trim or pad of processChannel: exactly originalLength samples
ChannelTrim(result, originalLength) ==
    IF Size(result, 1) > originalLength
    THEN Slice3(result, originalLength)
    ELSE IF Size(result, 1) < originalLength
    THEN Tensor(<<1, originalLength, 1>>,
                result.data \o [k \in 1..(originalLength - Size(result, 1)) |-> Rat(0, 1)])
    ELSE result

\* processChannel once the overlap-add has run
ChannelAdded(originalLength, loop, ola) ==
    IF ~ola.t.defined \/ Numel(ola.t) = 0
    THEN [t |-> Undefined, inputs |-> loop.inputs, chunks |-> loop.chunks,
          emits |-> loop.emits \o ola.emits
                    \o <<Err("Overlap-add failed for channel")>>]
    ELSE [t |-> ChannelTrim(ola.t, originalLength),
          inputs |-> loop.inputs, chunks |-> loop.chunks,
          emits |-> loop.emits]

\* processChannel once the chunk loop has run
ChannelLooped(originalLength, loop) ==
    IF ~loop.ok
    THEN [t |-> Undefined, inputs |-> loop.inputs,
          chunks |-> loop.chunks, emits |-> loop.emits]
    ELSE ChannelAdded(originalLength, loop, doOverlapAdd(loop.chunks))

\* SeparationWorker::processChannel
processChannel(channelWaveform, condition, env, progressOffset, base) ==
    LET originalLength == Size(channelWaveform, 0)
        step == StepOf(m_clipSamples)
    IN IF step <= 0
       THEN [t |-> Undefined, inputs |-> <<>>, chunks |-> <<>>,
             emits |-> <<Err("Invalid step size calculated from clipSamples and overlapRate")>>]
       ELSE ChannelLooped(originalLength,
                ChannelChunkLoop(channelWaveform, condition, env,
                                 progressOffset, base, 0, step, NoChunks))

\* Tensor::squeeze(): every dimension of size 1 is removed
Squeeze(t) == Tensor(SelectSeq(t.shape, LAMBDA d : d # 1), t.data)

\* torch::cat({l.unsqueeze(1), r.unsqueeze(1)}, 1) of two squeezed channel
\* results, then the trim to originalLength; unsqueeze(1) of a 0-dimensional
\* tensor throws c10::Error, reported as ok = FALSE
CombineStereo(leftResult, rightResult, originalLength) ==
    LET l == Squeeze(leftResult)
        r == Squeeze(rightResult)
    IN IF Dim(l) < 1 \/ Dim(r) < 1 \/ l.shape # r.shape
       THEN [ok |-> FALSE, t |-> Undefined]
       ELSE LET frames == IF Size(l, 0) > originalLength THEN originalLength
                          ELSE Size(l, 0)
            IN [ok |-> TRUE,
                t |-> Tensor(<<frames, 2>>,
                        [k \in 1..(2 * frames) |->
                            IF (k - 1) % 2 = 0 THEN l.data[(k - 1) \div 2 + 1]
                            ELSE r.data[(k - 1) \div 2 + 1]])]

\* processSingleFileStereo once both channels are processed and combined
\* into c: the result is emitted
StereoCombined(env, featureName, left, right, c) ==
    LET sofar == <<Progress(0)>> \o left.emits \o right.emits
    IN IF ~c.ok
       THEN Failed(sofar \o <<Err("Error combining stereo channels")>>,
                   left.inputs \o right.inputs,
                   left.chunks \o right.chunks)
       ELSE [emits |-> sofar \o
               <<SeparationFinished(env.path, featureName, c.t)>>,
             inputs |-> left.inputs \o right.inputs,
             chunks |-> left.chunks \o right.chunks,
             olas |-> <<left.chunks, right.chunks>>]

\* processSingleFileStereo once the right channel is processed
StereoRight(env, featureName, originalLength, left, right) ==
    IF ~right.t.defined
    THEN Failed(<<Progress(0)>> \o left.emits \o right.emits
                \o <<Err("Failed to process right channel")>>,
                left.inputs \o right.inputs,
                left.chunks \o right.chunks)
    ELSE StereoCombined(env, featureName, left, right,
                        CombineStereo(left.t, right.t, originalLength))

\* processSingleFileStereo once the left channel is processed
StereoLeft(env, featureName, f, waveform, left) ==
    IF ~left.t.defined
    THEN Failed(<<Progress(0)>> \o left.emits
                \o <<Err("Failed to process left channel")>>,
                left.inputs, left.chunks)
    ELSE StereoRight(env, featureName, Size(waveform, 0), left,
                     processChannel(Column(waveform, 1), f.t, env,
                                    RightOffset, Len(left.inputs)))

\* processSingleFileStereo once the feature f and the waveform are loaded
StereoLoaded(env, featureName, f, waveform) ==
    IF ~f.t.defined \/ Numel(f.t) = 0
    THEN Failed(f.emits \o <<Err("Failed to load feature tensor")>>, <<>>, <<>>)
    ELSE IF Numel(waveform) = 0
    THEN Failed(<<Err("Failed to load audio waveform")>>, <<>>, <<>>)
    ELSE IF Dim(waveform) # 2 \/ Size(waveform, 1) # 2
    THEN Failed(<<Err("Input must be stereo (2 channels)")>>, <<>>, <<>>)
    ELSE StereoLeft(env, featureName, f, waveform,
                    processChannel(Column(waveform, 0), f.t, env, LeftOffset, 0))

\* SeparationWorker::processSingleFileStereo
processSingleFileStereo(env, featureName) ==
    IF ~env.modelOk
    THEN Failed(<<Err("Failed to load separation model")>>, <<>>, <<>>)
    ELSE StereoLoaded(env, featureName, loadFeature(env),
                      LoadAudio(env, env.reloadOk))

\* SeparationWorker::processSingleFile: the signals it emits, in order, with
\* the chunks it gave to the separator and the chunks it got back
processSingleFile(env, featureName) ==
    IF ~env.readable
    THEN Failed(<<Err("Audio file does not exist or is not readable")>>, <<>>, <<>>)
    ELSE LET waveform == LoadAudio(env, env.loadOk)
         IN IF Numel(waveform) = 0
            THEN Failed(<<Err("Failed to load audio waveform")>>, <<>>, <<>>)
            ELSE IF Dim(waveform) = 2 /\ Size(waveform, 1) = 2
            THEN processSingleFileStereo(env, featureName)
            ELSE processMono(env, waveform, featureName)

\* --------------------------------------------------------------- the writer
\* AudioSerializer::normalizeTensorShape: (frames, channels), or an undefined
\* tensor for an unsupported shape
normalizeTensorShape(waveform) ==
    IF Dim(waveform) = 1
    THEN Tensor(<<Size(waveform, 0), 1>>, waveform.data)
    ELSE IF Dim(waveform) = 2 THEN waveform
    ELSE IF Dim(waveform) = 3 /\ Size(waveform, 0) = 1 /\ Size(waveform, 2) = 1
    THEN Tensor(<<Size(waveform, 1), 1>>, waveform.data)
    ELSE Undefined

\* what the file system does for one saveWavToFile call
SaveIo == {"ok", "mkpath", "open", "write"}

\* AudioSerializer::saveWavToFile: TRUE iff the WAV was written
saveWavToFile(waveform, io) ==
    IF io = "mkpath" THEN FALSE
    ELSE IF io = "open" THEN FALSE
    ELSE IF Numel(normalizeTensorShape(waveform)) = 0 THEN FALSE
    ELSE IF io = "write" THEN FALSE
    ELSE TRUE

\* QFileInfo(path).baseName() and the directory of a mixture path
BaseName(path) == path.base
\* handleFinalResult: separated_results/<baseName>_<featureName>.wav
OutputPath(audioPath, featureName) ==
    [dir |-> "separated_results", base |-> BaseName(audioPath),
     feature |-> featureName]

\* ------------------------------------------------------------ environments
BaseEnv(path, ch, L, lk, rk, g) ==
    [path |-> path, readable |-> TRUE, loadOk |-> TRUE, reloadOk |-> TRUE,
     channels |-> ch, len |-> L, left |-> lk, right |-> rk, modelOk |-> TRUE,
     feature |-> "ok", sepAt |-> 0, sepKind |-> "throw", gain |-> g]

\* the number of chunks of a channel of L samples, and of forward calls of a
\* file: a file of more than two channels fails the 1-D check of the mono path
\* before any chunk is cut
ChunksOf(L) == (L + StepOf(m_clipSamples) - 1) \div StepOf(m_clipSamples)
CallsOf(e) == IF e.channels = 2 THEN 2 * ChunksOf(e.len)
              ELSE IF e.channels = 1 THEN ChunksOf(e.len)
              ELSE 0

\* e and every environment that differs from it by one failure
Variants(e) ==
    {e, [e EXCEPT !.readable = FALSE], [e EXCEPT !.loadOk = FALSE],
        [e EXCEPT !.reloadOk = FALSE], [e EXCEPT !.modelOk = FALSE]}
    \cup {[e EXCEPT !.feature = f] : f \in FeatureKinds}
    \cup {[e EXCEPT !.sepAt = k, !.sepKind = s] : k \in 1..CallsOf(e), s \in SepKinds}

\* the mixture path of the pipeline specification
MixPath == [dir |-> 1, base |-> 1]

\* the files of the pipeline specification: every waveform with no failure,
\* and every single failure on the ramp waveforms
SepEnvs ==
    {BaseEnv(MixPath, 1, L, lk, 0, g) : L \in 1..MaxLen, lk \in 0..MaxConst, g \in 1..2}
    \cup {BaseEnv(MixPath, 2, L, lk, rk, 1) :
            L \in 1..MaxLen, lk \in 0..MaxConst, rk \in 0..MaxConst}
    \cup UNION {Variants(BaseEnv(MixPath, ch, L, 0, 0, 1)) : ch \in 1..3, L \in 1..MaxLen}

\* the files of the orchestrator specification: mono, stereo and 3-channel
\* mixtures of OrchLen samples with every single failure
OrchLen == 4
OrchEnvs(path) ==
    UNION {Variants(BaseEnv(path, ch, OrchLen, 1, 1, 1)) : ch \in 1..3}

\* the k-th path of a submitted list; paths 1 and 2 are files of the same
\* base name in different directories
PathOf(k) == [dir |-> k, base |-> (k + 1) \div 2]
FileList(n) == [k \in 1..n |-> PathOf(k)]

\* ------------------------------------------------------------------- state
VARIABLES
    m_isProcessing,  \* AsyncProcessor::m_isProcessing
    conns,           \* connections of AsyncProcessor::processingStarted, in order
    resultSignal,    \* the signal of SeparationWorker connected to handleFinalResult
    jobs,            \* the accepted submissions, in order: [kind, files, name]
    htsatQ,          \* event queue of the HTSAT worker thread
    sepQ,            \* event queue of the separation worker thread
    htsatRun,        \* the slot running on the HTSAT worker thread
    sepRun,          \* the slot running on the separation worker thread
    mainQ,           \* worker signals queued to the main thread
    log,             \* the signals AsyncProcessor has emitted, in order
    sepEnv,          \* pipeline specification: the file being separated
    sepOut,          \* pipeline specification: what processSingleFile did
    featEnv,         \* feature specification: the query files and the folder
    featOut,         \* feature specification: what the feature job did
    tempRun,         \* temporary-file specification: the files and the last operation
    olaRun,          \* overlap-add specification: the chunks and the two results
    wavRun,          \* writer specification: the tensor, the file and the header
    locker,          \* locker specification: FileLocker and its last operation
    repo             \* repository specification: FileRepo's data of one file type

vars == <<m_isProcessing, conns, resultSignal, jobs, htsatQ, sepQ, htsatRun,
          sepRun, mainQ, log, sepEnv, sepOut, featEnv, featOut, tempRun, olaRun,
          wavRun, locker, repo>>
orchVars == <<m_isProcessing, conns, resultSignal, jobs, htsatQ, sepQ, htsatRun,
              sepRun, mainQ, log>>
toolVars == <<tempRun, olaRun, wavRun, locker, repo>>

Idle == [job |-> 0, pc |-> "idle", idx |-> 0, got |-> 0, rest |-> <<>>]
NoFeatEnv == [files |-> <<>>, name |-> "F", exists |-> {},
              model |-> [resource |-> "ok", fallback |-> "ok"]]
NoFeat == [pc |-> "start", emits |-> <<>>, event |-> "", path |-> <<>>,
           written |-> {}]
NoOut == [ran |-> FALSE, emits |-> <<>>, inputs |-> <<>>, chunks |-> <<>>,
          olas |-> <<>>]
\* no operation has run yet and no temporary file exists
NoTemp == [n |-> 0, op |-> <<>>, exists |-> {}, scheduled |-> {},
           created |-> {}, consumed |-> {}]
\* no overlap-add has run yet
NoOla == [ran |-> FALSE, loaded |-> <<>>, memory |-> Undefined, files |-> Undefined,
          emits |-> <<>>]
\* no result has been written yet
NoWav == [ran |-> FALSE, waveform |-> Undefined, io |-> "ok", before |-> "none",
          after |-> "none", ok |-> FALSE, header |-> <<>>]
\* FileLocker::FileLocker: no file is locked; no call has been made
NoLocker == [m_lockedFiles |-> {}, calls |-> <<>>,
             last |-> [p \in 1..MaxPaths |-> "none"]]
\* FileRepo::FileRepo: the data of one file type is empty
NoRepo == [paths |-> {}, files |-> <<>>, folders |-> {}, widgets |-> 0,
           replaced |-> FALSE, emits |-> <<>>]
InitTools ==
    /\ tempRun = NoTemp /\ olaRun = NoOla /\ wavRun = NoWav
    /\ locker = NoLocker /\ repo = NoRepo

\* AsyncProcessor::initializeThreadsAndWorkers connects handleFinalResult to
\* SeparationWorker::finished, a signal the worker does not declare; its signal
\* of that signature is separationFinished. A build has either declared the
\* signal the connection names, which nothing emits, or made the connection
\* from separationFinished.
ResultSignals == {"finished", "separationFinished"}

\* AsyncProcessor::initializeThreadsAndWorkers: the three placeholder lambdas
\* connected to processingStarted (job 0: they invoke nothing)
InitConns == <<[worker |-> "htsat", job |-> 0], [worker |-> "htsat", job |-> 0],
               [worker |-> "sep", job |-> 0]>>

InitOrch ==
    /\ m_isProcessing = FALSE
    /\ conns = InitConns
    /\ jobs = <<>>
    /\ htsatQ = <<>>
    /\ sepQ = <<>>
    /\ htsatRun = Idle
    /\ sepRun = Idle
    /\ mainQ = <<>>
    /\ log = <<>>

Init ==
    /\ InitOrch
    /\ resultSignal \in ResultSignals
    /\ sepEnv = BaseEnv(MixPath, 1, 1, 0, 0, 1)
    /\ sepOut = NoOut
    /\ featEnv = NoFeatEnv
    /\ featOut = NoFeat
    /\ InitTools

\* --------------------------------------------------------- the orchestrator
\* disconnect(this, &AsyncProcessor::processingStarted, worker, nullptr)
Disconnect(cs, worker) == SelectSeq(cs, LAMBDA c : c.worker # worker)

\* emit processingStarted(): every connected lambda lives in a worker thread,
\* so each call is posted to that worker's event queue
Posted(cs, worker) ==
    LET mine == SelectSeq(cs, LAMBDA c : c.worker = worker)
    IN [k \in 1..Len(mine) |-> [ev |-> "lambda", job |-> mine[k].job]]

\* the connections when a start method disconnects its own worker only: the
\* lambda of the other worker stays connected
Reconnect_OwnWorkerOnly(cs, worker, job) ==
    Append(Disconnect(cs, worker), [worker |-> worker, job |-> job])

\* the connections after the two disconnects and the connect of a start method
Reconnect(cs, worker, job) ==
    Append(Disconnect(Disconnect(cs, "htsat"), "sep"),
           [worker |-> worker, job |-> job])

\* the part of startFeatureGeneration / startAudioSeparation after the busy
\* check: set the flag, reconnect processingStarted, emit it
Accept(kind, filePaths, name) ==
    LET job == Len(jobs) + 1
        cs == Reconnect(conns, kind, job)
    IN /\ m_isProcessing' = TRUE
       /\ jobs' = Append(jobs, [kind |-> kind, files |-> filePaths, name |-> name])
       /\ conns' = cs
       /\ htsatQ' = htsatQ \o Posted(cs, "htsat")
       /\ sepQ' = sepQ \o Posted(cs, "sep")
       /\ log' = Append(log, [ev |-> "Started", job |-> job])
       /\ UNCHANGED <<htsatRun, sepRun, mainQ>>

\* the number of files of all accepted submissions
RECURSIVE SubmittedIn(_)
SubmittedIn(js) ==
    IF js = <<>> THEN 0 ELSE Len(Head(js).files) + SubmittedIn(Tail(js))

\* the calls the model makes: lists of at most MaxFiles files, and accepted
\* submissions and their files of at most MaxWork together
Bounded(filePaths) ==
    Len(jobs) + SubmittedIn(jobs) + 1 + Len(filePaths) <= MaxWork

\* AsyncProcessor::startFeatureGeneration
StartFeatureGeneration(filePaths, outputFileName) ==
    /\ Bounded(filePaths)
    /\ IF m_isProcessing
       THEN UNCHANGED orchVars
       ELSE Accept("htsat", filePaths, outputFileName)
    /\ UNCHANGED <<sepEnv, sepOut, featEnv, featOut, toolVars,
                   resultSignal>>

\* startAudioSeparation without its busy check
StartAudioSeparation_Unguarded(filePaths, featureName) ==
    /\ Bounded(filePaths)
    /\ Accept("sep", filePaths, featureName)
    /\ UNCHANGED <<sepEnv, sepOut, featEnv, featOut, toolVars,
                   resultSignal>>

\* AsyncProcessor::startAudioSeparation
StartAudioSeparation(filePaths, featureName) ==
    /\ Bounded(filePaths)
    /\ IF m_isProcessing
       THEN UNCHANGED orchVars
       ELSE Accept("sep", filePaths, featureName)
    /\ UNCHANGED <<sepEnv, sepOut, featEnv, featOut, toolVars,
                   resultSignal>>

\* The separation thread's event loop takes its next event while no slot runs:
\* a placeholder lambda does nothing, the lambda of a job posts the queued
\* invocation of processFile, and the invocation starts processFile.
SepDispatch ==
    /\ sepRun.pc = "idle"
    /\ sepQ # <<>>
    /\ LET e == Head(sepQ)
       IN IF e.ev = "lambda"
          THEN /\ sepQ' = IF e.job = 0 THEN Tail(sepQ)
                          ELSE Append(Tail(sepQ), [ev |-> "invoke", job |-> e.job])
               /\ UNCHANGED sepRun
          ELSE /\ sepQ' = Tail(sepQ)
               /\ sepRun' = [job |-> e.job, pc |-> "files", idx |-> 0, got |-> 0,
                             rest |-> <<>>]
    /\ UNCHANGED <<m_isProcessing, conns, jobs, htsatQ, htsatRun, mainQ, log,
                   sepEnv, sepOut, featEnv, featOut, toolVars,
                   resultSignal>>

\* the worker signals of one file as queued to the main thread, each tagged
\* with the job and the file it belongs to; of a result tensor the
\* orchestrator reads only the shape. SeparationWorker::error is connected to
\* a lambda; separationFinished reaches handleFinalResult only where it is the
\* signal the connection was made from.
Queued(emits, job, idx, audioPath) ==
    LET connected == SelectSeq(emits, LAMBDA e : e.sig = "separationFinished"
                                           => resultSignal = "separationFinished")
    IN [k \in 1..Len(connected) |->
          IF connected[k].sig = "separationFinished"
          THEN [sig |-> "separationFinished", job |-> job, idx |-> idx,
                audioPath |-> audioPath,
                featureName |-> connected[k].featureName,
                tensor |-> connected[k].tensor]
          ELSE [sig |-> connected[k].sig, job |-> job, idx |-> idx,
                modelLoad |-> connected[k].modelLoad]]

\* the error and result signals of one processSingleFile run, in order, with
\* the samples left out and of the messages only whether it is the one of a
\* failed model load
\* (progressUpdated is forwarded to processingProgress and changes no state)
Signals(emits) ==
    LET kept == SelectSeq(emits, LAMBDA e : e.sig # "progress")
    IN [k \in 1..Len(kept) |->
          IF kept[k].sig = "separationFinished"
          THEN [sig |-> kept[k].sig, featureName |-> kept[k].featureName,
                tensor |-> Tensor(kept[k].tensor.shape, <<>>)]
          ELSE [sig |-> kept[k].sig,
                modelLoad |-> kept[k].msg = "Failed to load separation model"]]

\* every signal sequence processSingleFile can emit for a file of OrchEnvs
SepOutcomes ==
    {Signals(processSingleFile(env, "F").emits) : env \in OrchEnvs(MixPath)}

\* the loop of processFile taking the files from the end of the list
SepFile_LastFirst(emits) ==
    /\ sepRun.pc = "files"
    /\ sepRun.rest = <<>>
    /\ sepRun.idx < Len(jobs[sepRun.job].files)
    /\ LET at == Len(jobs[sepRun.job].files) - sepRun.idx
           q == Queued(emits, sepRun.job, at, jobs[sepRun.job].files[at])
       IN /\ mainQ' = IF q = <<>> THEN mainQ ELSE Append(mainQ, Head(q))
          /\ sepRun' = [sepRun EXCEPT !.idx = sepRun.idx + 1,
                                      !.rest = IF q = <<>> THEN <<>> ELSE Tail(q)]
    /\ UNCHANGED <<m_isProcessing, conns, jobs, htsatQ, sepQ, htsatRun, log,
                   sepEnv, sepOut, featEnv, featOut, toolVars,
                   resultSignal>>

\* SeparationWorker::processFile, one iteration of its loop: the next file of
\* the list goes into processSingleFile, which runs up to the first signal it
\* emits; the signal is queued to the main thread, and the signals the call
\* has still to emit are kept in sepRun.rest
SepFile(emits) ==
    /\ sepRun.pc = "files"
    /\ sepRun.rest = <<>>
    /\ sepRun.idx < Len(jobs[sepRun.job].files)
    /\ LET q == Queued(emits, sepRun.job, sepRun.idx + 1,
                       jobs[sepRun.job].files[sepRun.idx + 1])
       IN /\ mainQ' = IF q = <<>> THEN mainQ ELSE Append(mainQ, Head(q))
          /\ sepRun' = [sepRun EXCEPT !.idx = sepRun.idx + 1,
                                      !.rest = IF q = <<>> THEN <<>> ELSE Tail(q)]
    /\ UNCHANGED <<m_isProcessing, conns, jobs, htsatQ, sepQ, htsatRun, log,
                   sepEnv, sepOut, featEnv, featOut, toolVars,
                   resultSignal>>

\* processSingleFile goes on to the next signal it emits, while the main
\* thread may have handled the ones before
SepEmit ==
    /\ sepRun.pc = "files"
    /\ sepRun.rest # <<>>
    /\ mainQ' = Append(mainQ, Head(sepRun.rest))
    /\ sepRun' = [sepRun EXCEPT !.rest = Tail(sepRun.rest)]
    /\ UNCHANGED <<m_isProcessing, conns, jobs, htsatQ, sepQ, htsatRun, log,
                   sepEnv, sepOut, featEnv, featOut, toolVars,
                   resultSignal>>

\* SeparationWorker::processFile returns after the last file
SepReturn ==
    /\ sepRun.pc = "files"
    /\ sepRun.rest = <<>>
    /\ sepRun.idx = Len(jobs[sepRun.job].files)
    /\ sepRun' = Idle
    /\ UNCHANGED <<m_isProcessing, conns, jobs, htsatQ, sepQ, htsatRun, mainQ,
                   log, sepEnv, sepOut, featEnv, featOut, toolVars,
                   resultSignal>>

\* The HTSAT thread's event loop, as SepDispatch
HtsatDispatch ==
    /\ htsatRun.pc = "idle"
    /\ htsatQ # <<>>
    /\ LET e == Head(htsatQ)
       IN IF e.ev = "lambda"
          THEN /\ htsatQ' = IF e.job = 0 THEN Tail(htsatQ)
                            ELSE Append(Tail(htsatQ), [ev |-> "invoke", job |-> e.job])
               /\ UNCHANGED htsatRun
          ELSE /\ htsatQ' = Tail(htsatQ)
               /\ htsatRun' = [job |-> e.job, pc |-> "begin", idx |-> 0, got |-> 0,
                               rest |-> <<>>]
    /\ UNCHANGED <<m_isProcessing, conns, jobs, sepQ, sepRun, mainQ, log,
                   sepEnv, sepOut, featEnv, featOut, toolVars,
                   resultSignal>>

HtsatError(job, idx) ==
    [sig |-> "error", job |-> job, idx |-> idx, modelLoad |-> FALSE]

\* HTSATWorker::generateFeatures up to the first signal of its checks and
\* model load. resource: whether loadModelFromResource succeeds (each of its
\* failures emits errorOccurred, which is connected to HTSATWorker::error);
\* fallback: "ok", "nofile" (no signal) or "throw" (errorOccurred) for
\* HTSATProcessor::loadModel. Where the load fails, the signals that follow
\* the first are kept in htsatRun.rest.
HtsatBegin(resource, fallback) ==
    /\ htsatRun.pc = "begin"
    /\ LET job == htsatRun.job
           E == HtsatError(job, 0)
       IN IF jobs[job].files = <<>> \/ jobs[job].name = ""
          THEN /\ mainQ' = Append(mainQ, E)
               /\ htsatRun' = Idle
          ELSE IF resource
          THEN /\ mainQ' = mainQ
               /\ htsatRun' = [htsatRun EXCEPT !.pc = "files"]
          ELSE IF fallback = "ok"
          THEN /\ mainQ' = Append(mainQ, E)
               /\ htsatRun' = [htsatRun EXCEPT !.pc = "files"]
          ELSE /\ mainQ' = Append(mainQ, E)
               /\ htsatRun' = [htsatRun EXCEPT
                                 !.pc = "failed",
                                 !.rest = IF fallback = "throw" THEN <<E, E>>
                                          ELSE <<E>>]
    /\ UNCHANGED <<m_isProcessing, conns, jobs, htsatQ, sepQ, sepRun, log,
                   sepEnv, sepOut, featEnv, featOut, toolVars,
                   resultSignal>>

\* generateFeatures goes on to the next signal of a failed model load, while
\* the main thread may have handled the ones before; it returns after its own
\* error
HtsatEmit ==
    /\ htsatRun.pc = "failed"
    /\ mainQ' = Append(mainQ, Head(htsatRun.rest))
    /\ htsatRun' = IF Tail(htsatRun.rest) = <<>> THEN Idle
                   ELSE [htsatRun EXCEPT !.rest = Tail(htsatRun.rest)]
    /\ UNCHANGED <<m_isProcessing, conns, jobs, htsatQ, sepQ, sepRun, log,
                   sepEnv, sepOut, featEnv, featOut, toolVars,
                   resultSignal>>

\* HTSATWorker::processFilesAndCollectEmbeddings, one iteration: the file
\* yields an embedding ("ok"), is skipped without a signal ("skip": validation
\* or decoding fails) or fails in the processor, which emits errorOccurred
HtsatFile(outcome) ==
    /\ htsatRun.pc = "files"
    /\ htsatRun.idx < Len(jobs[htsatRun.job].files)
    /\ mainQ' = IF outcome = "error"
                THEN Append(mainQ, HtsatError(htsatRun.job, htsatRun.idx + 1))
                ELSE mainQ
    /\ htsatRun' = [htsatRun EXCEPT !.idx = htsatRun.idx + 1,
                                    !.got = IF outcome = "ok" THEN htsatRun.got + 1
                                            ELSE htsatRun.got]
    /\ UNCHANGED <<m_isProcessing, conns, jobs, htsatQ, sepQ, sepRun, log,
                   sepEnv, sepOut, featEnv, featOut, toolVars,
                   resultSignal>>

\* HTSATWorker::generateFeatures after the loop: finished with the average
\* embedding, or error when no file yielded one
HtsatEnd ==
    /\ htsatRun.pc = "files"
    /\ htsatRun.idx = Len(jobs[htsatRun.job].files)
    /\ mainQ' = Append(mainQ,
                  IF htsatRun.got > 0
                  THEN [sig |-> "finished", job |-> htsatRun.job,
                        idx |-> htsatRun.idx]
                  ELSE HtsatError(htsatRun.job, 0))
    /\ htsatRun' = Idle
    /\ UNCHANGED <<m_isProcessing, conns, jobs, htsatQ, sepQ, sepRun, log,
                   sepEnv, sepOut, featEnv, featOut, toolVars,
                   resultSignal>>

\* the lambdas connected to SeparationWorker::error and HTSATWorker::error
OnWorkerError ==
    /\ mainQ # <<>>
    /\ Head(mainQ).sig = "error"
    /\ m_isProcessing' = FALSE
    /\ log' = Append(log, [ev |-> "Error", job |-> Head(mainQ).job,
                           idx |-> Head(mainQ).idx,
                           modelLoad |-> Head(mainQ).modelLoad])
    /\ mainQ' = Tail(mainQ)
    /\ UNCHANGED <<conns, jobs, htsatQ, sepQ, htsatRun, sepRun, sepEnv, sepOut, featEnv, featOut, toolVars,
                   resultSignal>>

\* AsyncProcessor::handleFinalResult; io: what the file system does for the save
handleFinalResult(io) ==
    /\ mainQ # <<>>
    /\ Head(mainQ).sig = "separationFinished"
    /\ LET e == Head(mainQ)
           outputPath == OutputPath(e.audioPath, e.featureName)
           saveResult == saveWavToFile(e.tensor, io)
       IN /\ m_isProcessing' = FALSE
          /\ log' = Append(log, [ev |-> "Finished", job |-> e.job, idx |-> e.idx,
                                 results |-> <<outputPath>>,
                                 saved |-> saveResult])
    /\ mainQ' = Tail(mainQ)
    /\ UNCHANGED <<conns, jobs, htsatQ, sepQ, htsatRun, sepRun, sepEnv, sepOut, featEnv, featOut, toolVars,
                   resultSignal>>

\* the lambda connected to HTSATWorker::finished: the output folder is made,
\* the embedding is saved, and processingFinished or processingError follows
OnHtsatFinished(mkpathOk, saveOk) ==
    /\ mainQ # <<>>
    /\ Head(mainQ).sig = "finished"
    /\ LET e == Head(mainQ)
       IN /\ m_isProcessing' = FALSE
          /\ log' = Append(log,
                      IF mkpathOk /\ saveOk
                      THEN [ev |-> "Finished", job |-> e.job, idx |-> e.idx,
                            results |-> <<[dir |-> "output_features",
                                           base |-> jobs[e.job].name,
                                           feature |-> ""]>>,
                            saved |-> TRUE]
                      ELSE [ev |-> "Error", job |-> e.job, idx |-> 0,
                            modelLoad |-> FALSE])
    /\ mainQ' = Tail(mainQ)
    /\ UNCHANGED <<conns, jobs, htsatQ, sepQ, htsatRun, sepRun, sepEnv, sepOut, featEnv, featOut, toolVars,
                   resultSignal>>

Next ==
    \/ \E n \in 0..MaxFiles, name \in {"", "F"} :
          StartFeatureGeneration(FileList(n), name)
    \/ \E n \in 0..MaxFiles : StartAudioSeparation(FileList(n), "F")
    \/ SepDispatch
    \/ \E emits \in SepOutcomes : SepFile(emits)
    \/ SepEmit
    \/ SepReturn
    \/ HtsatDispatch
    \/ \E resource \in BOOLEAN, fallback \in {"ok", "nofile", "throw"} :
          HtsatBegin(resource, fallback)
    \/ HtsatEmit
    \/ \E outcome \in {"ok", "skip", "error"} : HtsatFile(outcome)
    \/ HtsatEnd
    \/ OnWorkerError
    \/ \E io \in SaveIo : handleFinalResult(io)
    \/ \E mkpathOk \in BOOLEAN, saveOk \in BOOLEAN : OnHtsatFinished(mkpathOk, saveOk)

Spec == Init /\ [][Next]_vars

\* ------------------------------------------------ the pipeline specification
\* One mixture file, drawn from SepEnvs, is separated by processSingleFile.
InitSep ==
    /\ InitOrch
    /\ resultSignal = "finished"
    /\ sepEnv \in SepEnvs
    /\ sepOut = NoOut
    /\ featEnv = NoFeatEnv
    /\ featOut = NoFeat
    /\ InitTools

RunSeparation ==
    /\ ~sepOut.ran
    /\ sepOut' = [ran |-> TRUE] @@ processSingleFile(sepEnv, "F")
    /\ UNCHANGED <<orchVars, sepEnv, featEnv, featOut, toolVars>>

NextSep == RunSeparation

SpecSep == InitSep /\ [][NextSep]_vars

\* ------------------------------------------------ the feature specification
\* One feature job: the query files of featEnv go through
\* HTSATWorker::generateFeatures, which loads the model first, and the average
\* embedding through the handler of HTSATWorker::finished, which picks the
\* destination among the files featEnv.exists names.
\*   files    per query file what HTSATWorker::processSingleFile meets: "skip"
\*            (validation or decoding fails), "fail" (the processor yields
\*            nothing) or "ok" with the embedding the processor returns
\*   exists   the suffixes k of the files <base>_<timestamp>[_k].txt present
\*            in the feature folder (0: the file without suffix)
\*   model    what the model load meets: resource, for
\*            HTSATProcessor::loadModelFromResource ("ok" or the step that
\*            fails), and fallback, for HTSATProcessor::loadModel of
\*            HTSAT_MODEL_PATH ("ok", "nofile" or "throw")
Embeddings == [1..EXPECTED_CONDITION_DIM -> 0..MaxEmb]
FileOutcomes ==
    {[kind |-> "skip", emb |-> <<>>], [kind |-> "fail", emb |-> <<>>]}
    \cup {[kind |-> "ok", emb |-> e] : e \in Embeddings}
\* the environments of a job whose output is to be named name, with the model
\* loading as load says: every list of up to MaxFiles files and every feature
\* folder where the resource loads, and every shorter list with an empty
\* feature folder where the resource fails
FeatEnvs(name, load) ==
    {[files |-> f, name |-> name, exists |-> x, model |-> load] :
        f \in UNION {[1..n -> FileOutcomes] :
                       n \in 0..(IF load.resource = "ok" THEN MaxFiles
                                 ELSE MaxFiles - 1)},
        x \in IF load.resource = "ok" THEN SUBSET (0..MaxTaken) ELSE {{}}}

HtsatFinished(avgEmb, outputFileName) ==
    [sig |-> "finished", avgEmb |-> avgEmb, outputFileName |-> outputFileName]

\* HTSATWorker::processSingleFile: the embedding of the file, if any
htsatProcessSingleFile(file) ==
    IF file.kind = "ok" THEN [has_value |-> TRUE, value |-> file.emb]
    ELSE [has_value |-> FALSE, value |-> <<>>]

\* the failing file handed on as an embedding of zeros
processFilesAndCollectEmbeddings_KeepFailed(filePaths) ==
    [embeddings |->
        [k \in 1..Len(filePaths) |->
            IF htsatProcessSingleFile(filePaths[k]).has_value
            THEN htsatProcessSingleFile(filePaths[k]).value
            ELSE [i \in 1..EXPECTED_CONDITION_DIM |-> 0]],
     emits |-> [k \in 1..Len(filePaths) |->
                  Progress((k * 100) \div Len(filePaths))]]

\* HTSATWorker::processFilesAndCollectEmbeddings: the embeddings of the files
\* that yield one, in order, and a progress signal per file
processFilesAndCollectEmbeddings(filePaths) ==
    LET got == SelectSeq([k \in 1..Len(filePaths) |->
                             htsatProcessSingleFile(filePaths[k])],
                         LAMBDA r : r.has_value)
    IN [embeddings |-> [k \in 1..Len(got) |-> got[k].value],
        emits |-> [k \in 1..Len(filePaths) |->
                     Progress((k * 100) \div Len(filePaths))]]

\* the summing loop of computeAverageEmbedding for element i: an embedding
\* whose size differs from the first one's is left out
RECURSIVE SumEmbeddings(_, _, _)
SumEmbeddings(embeddings, embeddingSize, i) ==
    IF embeddings = <<>> THEN 0
    ELSE (IF Len(Head(embeddings)) # embeddingSize THEN 0
          ELSE Head(embeddings)[i])
         + SumEmbeddings(Tail(embeddings), embeddingSize, i)

\* HTSATWorker::computeAverageEmbedding
computeAverageEmbedding(embeddings) ==
    IF embeddings = <<>> THEN <<>>
    ELSE LET embeddingSize == Len(embeddings[1])
         IN IF embeddingSize = 0 THEN <<>>
            ELSE [i \in 1..embeddingSize |->
                    Rat(SumEmbeddings(embeddings, embeddingSize, i),
                        Len(embeddings))]

\* HTSATWorker::doGenerateAudioFeatures
doGenerateAudioFeatures(filePaths) ==
    LET r == processFilesAndCollectEmbeddings(filePaths)
    IN [avgEmb |-> IF r.embeddings = <<>> THEN <<>>
                   ELSE computeAverageEmbedding(r.embeddings),
        emits |-> r.emits]

\* HTSATProcessor::loadModelFromResource: whether it loads the model, the
\* errorOccurred signal of the step that fails, which the worker forwards as
\* HTSATWorker::error, and what becomes of its temporary file (auto-remove
\* off): "none" where it is not created, "removed" after the load, "left"
\* where the function returns before the load
htsatLoadModelFromResource(resource) ==
    CASE resource = "ok" -> [ok |-> TRUE, emits |-> <<>>, temp |-> "removed"]
      [] resource = "invalid" ->
           [ok |-> FALSE, emits |-> <<Err("Invalid resource path")>>,
            temp |-> "none"]
      [] resource = "openfail" ->
           [ok |-> FALSE,
            emits |-> <<Err("Failed to create temporary file for model")>>,
            temp |-> "none"]
      [] resource = "emptydata" ->
           [ok |-> FALSE, emits |-> <<Err("Resource data is empty")>>,
            temp |-> "left"]
      [] resource = "shortwrite" ->
           [ok |-> FALSE,
            emits |-> <<Err("Failed to write complete model data to temporary file")>>,
            temp |-> "left"]
      [] OTHER ->
           [ok |-> FALSE, emits |-> <<Err("Error loading model from resource")>>,
            temp |-> "removed"]

\* HTSATProcessor::loadModel: a file that cannot be opened gives no signal
htsatLoadModel(fallback) ==
    CASE fallback = "ok" -> [ok |-> TRUE, emits |-> <<>>]
      [] fallback = "nofile" -> [ok |-> FALSE, emits |-> <<>>]
      [] OTHER -> [ok |-> FALSE, emits |-> <<Err("Error loading model")>>]

\* the model load of generateFeatures: the resource, then the file
LoadHtsatModel(model) ==
    IF htsatLoadModelFromResource(model.resource).ok
    THEN [ok |-> TRUE, emits |-> <<>>]
    ELSE [ok |-> htsatLoadModel(model.fallback).ok,
          emits |-> htsatLoadModelFromResource(model.resource).emits
                    \o htsatLoadModel(model.fallback).emits]

\* HTSATWorker::generateFeatures: the signals it emits
generateFeatures(filePaths, outputFileName, model) ==
    IF filePaths = <<>> THEN <<Err("No audio files provided")>>
    ELSE IF outputFileName = "" THEN <<Err("Output file name is empty")>>
    ELSE IF ~LoadHtsatModel(model).ok
    THEN LoadHtsatModel(model).emits
         \o <<Err("Failed to load HTSAT model from both resource and file path")>>
    ELSE LET r == doGenerateAudioFeatures(filePaths)
         IN LoadHtsatModel(model).emits \o r.emits \o
            (IF r.avgEmb # <<>> THEN <<HtsatFinished(r.avgEmb, outputFileName)>>
             ELSE <<Err("Failed to generate features - no valid embeddings produced")>>)

\* outputFolder/baseName_timestamp.txt (k = 0) or ..._timestamp_k.txt
FeaturePath(baseName, k) ==
    [dir |-> "output_features", base |-> baseName, k |-> k]

\* the search with an if in place of the while: the path with counter 1 is
\* taken without looking whether it exists
FeaturePathSearch_NoRecheck(exists, filePath, counter) ==
    IF filePath \in exists THEN FeaturePath(filePath.base, counter) ELSE filePath

\* while (QFile::exists(filePath)) { filePath = ..._counter.txt; ++counter; }
RECURSIVE FeaturePathSearch(_, _, _)
FeaturePathSearch(exists, filePath, counter) ==
    IF filePath \in exists
    THEN FeaturePathSearch(exists, FeaturePath(filePath.base, counter), counter + 1)
    ELSE filePath

\* QFileInfo(outputFileName).baseName(), "output" if empty
FeatureBaseName(outputFileName) ==
    IF outputFileName = "" THEN "output" ELSE outputFileName

\* the files of the feature folder that carry the job's base name and timestamp
ExistingFeatures(env) == {FeaturePath(FeatureBaseName(env.name), k) : k \in env.exists}

InitFeat ==
    /\ InitOrch
    /\ resultSignal = "finished"
    /\ sepEnv = BaseEnv(MixPath, 1, 1, 0, 0, 1)
    /\ sepOut = NoOut
    /\ \E resource \in {"ok", "invalid", "openfail", "emptydata", "shortwrite",
                        "loadfail"},
          fallback \in {"ok", "nofile", "throw"} :
          /\ resource = "ok" => fallback = "ok"
          /\ featEnv \in FeatEnvs("F", [resource |-> resource,
                                       fallback |-> fallback])
    /\ featOut = NoFeat
    /\ InitTools

\* the worker slot: HTSATWorker::generateFeatures
GenerateFeatures ==
    /\ featOut.pc = "start"
    /\ featOut' = [featOut EXCEPT !.pc = "worked",
                                  !.emits = generateFeatures(featEnv.files, featEnv.name,
                                                             featEnv.model),
                                  !.written = ExistingFeatures(featEnv)]
    /\ UNCHANGED <<orchVars, sepEnv, sepOut, featEnv, toolVars>>

\* the lambda connected to HTSATWorker::finished: the folder is made, the free
\* destination is searched, the embedding is saved
SaveFeature(mkpathOk, saveOk) ==
    /\ featOut.pc = "worked"
    /\ featOut.emits # <<>>
    /\ featOut.emits[Len(featOut.emits)].sig = "finished"
    /\ LET e == featOut.emits[Len(featOut.emits)]
           baseName == FeatureBaseName(e.outputFileName)
           filePath == FeaturePathSearch(ExistingFeatures(featEnv),
                                         FeaturePath(baseName, 0), 1)
       IN featOut' =
            IF ~mkpathOk
            THEN [featOut EXCEPT !.pc = "done", !.event = "Error"]
            ELSE IF saveOk
            THEN [featOut EXCEPT !.pc = "done", !.event = "Finished",
                                 !.path = <<filePath>>,
                                 !.written = featOut.written \cup {filePath}]
            ELSE [featOut EXCEPT !.pc = "done", !.event = "Error",
                                 !.path = <<filePath>>]
    /\ UNCHANGED <<orchVars, sepEnv, sepOut, featEnv, toolVars>>

NextFeat ==
    \/ GenerateFeatures
    \/ \E mkpathOk \in BOOLEAN, saveOk \in BOOLEAN : SaveFeature(mkpathOk, saveOk)

SpecFeat == InitFeat /\ [][NextFeat]_vars

\* ----------------------------------------- the temporary-file specification
\* Up to MaxOps operations that create or consume temporary files run one
\* after the other. tempRun holds the temporary files that exist, the files
\* whose deletion was requested (deleteChunkFile), and the files the last
\* operation created and consumed.

\* what loadModelFromResource meets: an empty path, an invalid resource, a
\* temporary file that cannot be opened, empty resource data, a short write,
\* a model that does not load, or success
ResourceKinds == {"emptypath", "invalid", "openfail", "emptydata",
                  "shortwrite", "loadfail", "ok"}

\* the file QTemporaryFile creates for the n-th operation (auto-remove off)
ModelTempFile(n) == [kind |-> "model", n |-> n]
\* temp_chunks/mono.wav
MonoTempFile == [kind |-> "mono", n |-> 0]
\* the chunk files handed to the file-based overlap-add
ChunkFile(k) == [kind |-> "chunk", n |-> k]
ChunkFilePaths(n) == [k \in 1..n |-> ChunkFile(k)]

\* ZeroShotASPFeatureExtractor::loadModelFromResource on the files exists:
\* the file it created and the files that exist when it returns
loadModelFromResource(kind, tempFile, exists) ==
    IF kind = "emptypath" THEN [ok |-> FALSE, created |-> {}, exists |-> exists]
    ELSE IF kind = "invalid" THEN [ok |-> FALSE, created |-> {}, exists |-> exists]
    ELSE IF kind = "openfail" THEN [ok |-> FALSE, created |-> {}, exists |-> exists]
    ELSE IF kind = "emptydata"
    THEN [ok |-> FALSE, created |-> {tempFile}, exists |-> exists \cup {tempFile}]
    ELSE IF kind = "shortwrite"
    THEN [ok |-> FALSE, created |-> {tempFile}, exists |-> exists \cup {tempFile}]
    ELSE [ok |-> kind = "ok", created |-> {tempFile},
          exists |-> (exists \cup {tempFile}) \ {tempFile}]

\* the loop of doOverlapAdd(const QStringList&): the chunk files whose deletion
\* is requested; failAt: the index of the chunk file that cannot be loaded (0:
\* none)
RECURSIVE DeleteRequests(_, _, _)
DeleteRequests(chunkFilePaths, failAt, k) ==
    IF k > Len(chunkFilePaths) THEN {}
    ELSE IF k = failAt THEN {}
    ELSE {chunkFilePaths[k]} \cup DeleteRequests(chunkFilePaths, failAt, k + 1)

\* whether the mono part of processSingleFile reaches its saveToWav call
ReachesMonoSave(env) ==
    /\ env.readable
    /\ Numel(LoadAudio(env, env.loadOk)) # 0
    /\ ~(Dim(LoadAudio(env, env.loadOk)) = 2 /\ Size(LoadAudio(env, env.loadOk), 1) = 2)
    /\ env.modelOk
    /\ loadFeature(env).t.defined /\ Numel(loadFeature(env).t) # 0
    /\ \/ Dim(LoadAudio(env, env.loadOk)) = 2 /\ Size(LoadAudio(env, env.loadOk), 1) = 1
       \/ Dim(LoadAudio(env, env.loadOk)) = 1

InitTemp ==
    /\ InitOrch
    /\ resultSignal = "finished"
    /\ locker = NoLocker
    /\ repo = NoRepo
    /\ sepEnv = BaseEnv(MixPath, 1, 1, 0, 0, 1)
    /\ sepOut = NoOut
    /\ featEnv = NoFeatEnv
    /\ featOut = NoFeat
    /\ tempRun = NoTemp
    /\ olaRun = NoOla
    /\ wavRun = NoWav

\* the model load of a pipeline: ZeroShotASPFeatureExtractor::loadModelFromResource
LoadModelFromResource(kind) ==
    /\ tempRun.n < MaxOps
    /\ LET r == loadModelFromResource(kind, ModelTempFile(tempRun.n + 1),
                                      tempRun.exists)
       IN tempRun' = [n |-> tempRun.n + 1, op |-> <<"model", kind>>,
                      exists |-> r.exists, scheduled |-> tempRun.scheduled,
                      created |-> r.created, consumed |-> {}]
    /\ UNCHANGED <<orchVars, sepEnv, sepOut, featEnv, featOut, olaRun, wavRun, locker, repo>>

\* whether processSingleFile or processSingleFileStereo reaches its model load
ReachesModelLoad(env) ==
    env.readable /\ Numel(LoadAudio(env, env.loadOk)) # 0

\* processSingleFile on a mixture: the model load it makes (kind: what
\* loadModelFromResource meets on the resource path of Constants, which is
\* not empty; when it fails, env.modelOk is whether the loadModel fallback
\* succeeds) creates its temporary file, and the mono path writes
\* temp_chunks/mono.wav (saved: whether saveToWav wrote it), which no exit
\* path removes
SeparateFile(env, kind, saved) ==
    /\ tempRun.n < MaxOps
    /\ kind # "emptypath"
    /\ kind = "ok" => env.modelOk
    /\ LET r == IF ReachesModelLoad(env)
                THEN loadModelFromResource(kind, ModelTempFile(tempRun.n + 1),
                                           tempRun.exists)
                ELSE [ok |-> FALSE, created |-> {}, exists |-> tempRun.exists]
           written == IF ReachesMonoSave(env) /\ saved THEN {MonoTempFile} ELSE {}
       IN tempRun' = [n |-> tempRun.n + 1,
                      op |-> <<"file", kind,
                               Signals(processSingleFile(env, "F").emits)>>,
                      exists |-> r.exists \cup written,
                      scheduled |-> tempRun.scheduled,
                      created |-> r.created \cup written,
                      consumed |-> {}]
    /\ UNCHANGED <<orchVars, sepEnv, sepOut, featEnv, featOut, olaRun, wavRun, locker, repo>>

\* HTSATProcessor::loadModelFromResource, as HTSATWorker::generateFeatures
\* calls it for every job: its temporary file
HtsatLoadModelFromResource(resource) ==
    /\ tempRun.n < MaxOps
    /\ LET temp == htsatLoadModelFromResource(resource).temp
           tempFile == ModelTempFile(tempRun.n + 1)
       IN tempRun' = [n |-> tempRun.n + 1,
                      op |-> <<"htsatmodel", resource>>,
                      exists |-> IF temp = "left"
                                 THEN tempRun.exists \cup {tempFile}
                                 ELSE tempRun.exists,
                      scheduled |-> tempRun.scheduled,
                      created |-> IF temp = "none" THEN {} ELSE {tempFile},
                      consumed |-> {}]
    /\ UNCHANGED <<orchVars, sepEnv, sepOut, featEnv, featOut, olaRun, wavRun, locker, repo>>

\* doOverlapAdd(const QStringList&) on n chunk files that exist
OverlapAddFiles(n, failAt) ==
    /\ tempRun.n < MaxOps
    /\ tempRun' = [n |-> tempRun.n + 1, op |-> <<"ola", n, failAt>>,
                   exists |-> tempRun.exists
                              \cup {ChunkFilePaths(n)[k] : k \in 1..n},
                   scheduled |-> tempRun.scheduled
                                 \cup DeleteRequests(ChunkFilePaths(n), failAt, 1),
                   created |-> {},
                   consumed |-> {ChunkFilePaths(n)[k] : k \in 1..n}]
    /\ UNCHANGED <<orchVars, sepEnv, sepOut, featEnv, featOut, olaRun, wavRun, locker, repo>>

NextTemp ==
    \/ \E kind \in ResourceKinds : LoadModelFromResource(kind)
    \/ \E env \in OrchEnvs(MixPath), kind \in ResourceKinds, saved \in BOOLEAN :
          SeparateFile(env, kind, saved)
    \/ \E resource \in ResourceKinds \ {"emptypath"} :
          HtsatLoadModelFromResource(resource)
    \/ \E n \in 0..MaxChunkFiles, failAt \in 0..MaxChunkFiles :
          failAt <= n /\ OverlapAddFiles(n, failAt)

SpecTemp == InitTemp /\ [][NextTemp]_vars

\* ------------------------------------------- the overlap-add specification
\* The same chunk outputs go through doOverlapAdd(const QStringList&), as the
\* tensors loadAudio returns for the chunk files, and through
\* doOverlapAdd(const std::vector<torch::Tensor>&).

\* the chunk lengths of the specification: those for which every value of
\* torch::hann_window is a multiple of 1/HannDen
HannLengths == {1, 2, 3, 4}
HannDen == 4
\* HannDen * torch::hann_window(length)[n], the periodic window
\* 0.5 * (1 - cos(2*pi*n/length)), n from 0
HannWindow(length, n) ==
    IF length = 1 THEN 4
    ELSE IF length = 2 THEN <<0, 4>>[n + 1]
    ELSE IF length = 3 THEN <<0, 3, 3>>[n + 1]
    ELSE <<0, 2, 4, 2>>[n + 1]

\* AudioPreprocessUtils::applyHannWindow, the samples in units of 1/HannDen
applyHannWindow(chunk) ==
    IF Numel(chunk) = 0 THEN chunk
    ELSE Tensor(chunk.shape,
                [k \in 1..Size(chunk, 0) |->
                    chunk.data[k] * HannWindow(Size(chunk, 0), k - 1)])

\* the loop of doOverlapAdd(const QStringList&) from chunk file i on: loaded[i]
\* is what loadAudio returns for it (no sample: the load failed)
RECURSIVE LoadChunkFiles(_, _, _)
LoadChunkFiles(loaded, i, chunks) ==
    IF i > Len(loaded) THEN [ok |-> TRUE, chunks |-> chunks]
    ELSE IF Numel(loaded[i]) = 0 THEN [ok |-> FALSE, chunks |-> chunks]
    ELSE LoadChunkFiles(loaded, i + 1,
                        Append(chunks, To3D(applyHannWindow(loaded[i]))))

\* a tensor of rationals whose samples were computed in units of 1/HannDen
FromHannUnits(t) ==
    Tensor(t.shape, [k \in 1..Len(t.data) |->
                        Rat(t.data[k][1], HannDen * t.data[k][2])])

\* doOverlapAdd(const QStringList&) once the chunk files are loaded
OverlapAddLoaded(r) ==
    IF ~r.t.defined THEN r
    ELSE [t |-> FromHannUnits(r.t), emits |-> r.emits]

\* SeparationWorker::doOverlapAdd(const QStringList&)
doOverlapAddFiles(loaded) ==
    IF ~LoadChunkFiles(loaded, 1, <<>>).ok
    THEN [t |-> Undefined, emits |-> <<Err("Failed to load chunk from")>>]
    ELSE OverlapAddLoaded(doOverlapAdd(LoadChunkFiles(loaded, 1, <<>>).chunks))

\* the 1-D tensors of n samples in 0..MaxSample
Samples1(n) == {Tensor(<<n>>, d) : d \in [1..n -> 0..MaxSample]}
\* what loadAudio returns for the chunk files of one overlap-add: chunks of one
\* length, or of any lengths, a file that does not load among them
LoadedChunks ==
    UNION {[1..c -> Samples1(n)] : c \in 0..MaxOlaChunks, n \in HannLengths}
    \cup UNION {[1..c -> Samples1(1) \cup {Tensor(<<2>>, <<1, 1>>), Tensor(<<0>>, <<>>)}] :
                  c \in 1..MaxOlaChunks}

InitOla ==
    /\ InitOrch
    /\ resultSignal = "finished"
    /\ locker = NoLocker
    /\ repo = NoRepo
    /\ sepEnv = BaseEnv(MixPath, 1, 1, 0, 0, 1)
    /\ sepOut = NoOut
    /\ featEnv = NoFeatEnv
    /\ featOut = NoFeat
    /\ tempRun = NoTemp
    /\ wavRun = NoWav
    /\ olaRun \in {[NoOla EXCEPT !.loaded = l] : l \in LoadedChunks}

\* both overlap-adds on the same chunk outputs
OverlapAddBoth ==
    /\ ~olaRun.ran
    /\ olaRun' = [ran |-> TRUE, loaded |-> olaRun.loaded,
                  memory |-> doOverlapAdd([k \in 1..Len(olaRun.loaded) |->
                                              To3D(olaRun.loaded[k])]).t,
                  files |-> doOverlapAddFiles(olaRun.loaded).t,
                  emits |-> doOverlapAddFiles(olaRun.loaded).emits]
    /\ UNCHANGED <<orchVars, sepEnv, sepOut, featEnv, featOut, tempRun, wavRun, locker, repo>>

NextOla == OverlapAddBoth

SpecOla == InitOla /\ [][NextOla]_vars

\* ------------------------------------------------ the writer specification
\* One saveWavToFile call on a tensor of a given shape, with a result file
\* that exists already or not. Byte counts are kept as two 16-bit limbs
\* [hi, lo] (value hi * 2^16 + lo), hi unbounded for the exact value.
Limb == 2^16
\* the int64 value 4 * n (n * sizeof(float)), exact
Times4(n) ==
    [hi |-> 4 * (n \div Limb) + (4 * (n % Limb)) \div Limb,
     lo |-> (4 * (n % Limb)) % Limb]
\* the int64 value 36 + w, exact
Plus36(w) == [hi |-> w.hi + (w.lo + 36) \div Limb, lo |-> (w.lo + 36) % Limb]
\* the int value v as limbs
IntLimbs(v) == [hi |-> v \div Limb, lo |-> v % Limb]
\* file.write((char*)&x, 4) of a little-endian integer: its low 32 bits
Low32(w) == [hi |-> w.hi % Limb, lo |-> w.lo]
\* file.write((char*)&x, 2): the 16 bits stored
Low16(v) == v % Limb
\* conversion to short
ToShort(v) == IF v % Limb >= 2^15 THEN (v % Limb) - Limb ELSE v % Limb

\* the default sampleRate of saveWavToFile
SampleRate == 32000

\* AudioSerializer::writeWavHeader: the fields as stored in the file
writeWavHeader(channels, sampleRate, numSamples) ==
    [riffSize |-> Low32(Plus36(Times4(numSamples))),
     fmtSize |-> 16,
     format |-> Low16(3),
     channels |-> Low16(channels),
     sampleRate |-> sampleRate,
     byteRate |-> Low32(IntLimbs(sampleRate * channels * 4)),
     blockAlign |-> Low16(ToShort(channels * 4)),
     bitsPerSample |-> Low16(32),
     dataSize |-> Low32(Times4(numSamples))]

\* the header saveWavToFile writes for a tensor it accepts
WavHeaderOf(waveform) ==
    writeWavHeader(ToShort(Size(normalizeTensorShape(waveform), 1)), SampleRate,
                   Numel(normalizeTensorShape(waveform)))

\* the result file after saveWavToFile; before: "none" or "old" (a result
\* written earlier). QFile::open(WriteOnly) creates or truncates the file
\* before the tensor is looked at.
WavFileAfter(waveform, io, before) ==
    IF io = "mkpath" THEN before
    ELSE IF io = "open" THEN before
    ELSE IF Numel(normalizeTensorShape(waveform)) = 0 THEN "empty"
    ELSE IF io = "write" THEN "partial"
    ELSE "new"

\* frame counts of the specification, up to the first ones whose byte count
\* needs more than 32 bits
WavFrames == {0, 1, 2, 3, 2^16, 2^20, 2^29 - 5, 2^29, 2^30 - 10, 2^30 - 9, 2^30}
WavChannels == {1, 2, 3, 2^14 - 1, 2^14}
\* the tensors handed to the writer: (T), (T, C), (1, T, 1), and shapes the
\* writer does not support; the samples play no part
WavTensors ==
    {Tensor(<<T>>, <<>>) : T \in WavFrames}
    \cup UNION {{Tensor(<<T, C>>, <<>>) :
                    C \in {c \in WavChannels : T <= (2^30) \div c}} :
                  T \in WavFrames}
    \cup {Tensor(<<1, T, 1>>, <<>>) : T \in WavFrames}
    \cup {Tensor(<<1, T, 2>>, <<>>) : T \in {1, 2, 3}}
    \cup {Tensor(<<1, 1, T, 1>>, <<>>) : T \in {1, 2, 3}}

InitWav ==
    /\ InitOrch
    /\ resultSignal = "finished"
    /\ locker = NoLocker
    /\ repo = NoRepo
    /\ sepEnv = BaseEnv(MixPath, 1, 1, 0, 0, 1)
    /\ sepOut = NoOut
    /\ featEnv = NoFeatEnv
    /\ featOut = NoFeat
    /\ tempRun = NoTemp
    /\ olaRun = NoOla
    /\ wavRun \in {[NoWav EXCEPT !.waveform = w, !.io = io, !.before = b,
                                 !.after = b] :
                     w \in WavTensors, io \in SaveIo, b \in {"none", "old"}}

\* AudioSerializer::saveWavToFile
SaveWav ==
    /\ ~wavRun.ran
    /\ wavRun' = [wavRun EXCEPT
                    !.ran = TRUE,
                    !.ok = saveWavToFile(wavRun.waveform, wavRun.io),
                    !.after = WavFileAfter(wavRun.waveform, wavRun.io, wavRun.before),
                    !.header = IF saveWavToFile(wavRun.waveform, wavRun.io)
                               THEN <<WavHeaderOf(wavRun.waveform)>>
                               ELSE <<>>]
    /\ UNCHANGED <<orchVars, sepEnv, sepOut, featEnv, featOut, tempRun, olaRun, locker, repo>>

NextWav == SaveWav

SpecWav == InitWav /\ [][NextWav]_vars

\* ------------------------------------------------ the locker specification
\* FileLocker::isFileLocked
isFileLocked(path) == path \in locker.m_lockedFiles

\* lockFile, were the path inserted whatever setFileReadOnly returns
lockFile_InsertsOnFailure(m_lockedFiles, path, readOnlyOk) ==
    IF path \in m_lockedFiles
    THEN [ret |-> FALSE, locked |-> m_lockedFiles, signals |-> <<>>]
    ELSE [ret |-> readOnlyOk, locked |-> m_lockedFiles \cup {path},
          signals |-> IF readOnlyOk THEN << <<"fileLocked", path>> >> ELSE <<>>]

\* FileLocker::lockFile: readOnlyOk is whether FileUtils::setFileReadOnly(path,
\* true) returns Success; the result is the return value, the locked set and
\* the signals emitted
lockFile(m_lockedFiles, path, readOnlyOk) ==
    IF path \in m_lockedFiles
    THEN [ret |-> FALSE, locked |-> m_lockedFiles, signals |-> <<>>]
    ELSE IF readOnlyOk
         THEN [ret |-> TRUE, locked |-> m_lockedFiles \cup {path},
               signals |-> << <<"fileLocked", path>> >>]
         ELSE [ret |-> FALSE, locked |-> m_lockedFiles, signals |-> <<>>]

\* FileLocker::unlockFile: writableOk is whether FileUtils::setFileReadOnly(path,
\* false) returns Success
unlockFile(m_lockedFiles, path, writableOk) ==
    IF path \notin m_lockedFiles
    THEN [ret |-> FALSE, locked |-> m_lockedFiles, signals |-> <<>>]
    ELSE IF writableOk
         THEN [ret |-> TRUE, locked |-> m_lockedFiles \ {path},
               signals |-> << <<"fileUnlocked", path>> >>]
         ELSE [ret |-> FALSE, locked |-> m_lockedFiles, signals |-> <<>>]

\* one call of lockFile or unlockFile on the locker l: the locked set it
\* leaves, the record of the call, and the last operation on each path that
\* returned true
Called(l, fn, path, ok) ==
    LET r == IF fn = "lockFile" THEN lockFile(l.m_lockedFiles, path, ok)
                                ELSE unlockFile(l.m_lockedFiles, path, ok)
    IN [m_lockedFiles |-> r.locked,
        calls |-> Append(l.calls,
                         [fn |-> fn, path |-> path, ok |-> ok,
                          before |-> l.m_lockedFiles, ret |-> r.ret,
                          after |-> r.locked, signals |-> r.signals]),
        last |-> IF r.ret
                 THEN [l.last EXCEPT ![path] = IF fn = "lockFile" THEN "lock"
                                                                 ELSE "unlock"]
                 ELSE l.last]

\* the loop of FileLocker::unlockAllFiles over the copy toUnlock, from its k-th
\* path on; setFileReadOnly fails for the paths of failing
RECURSIVE UnlockEach(_, _, _, _)
UnlockEach(l, toUnlock, failing, k) ==
    IF k > Len(toUnlock) THEN l
    ELSE UnlockEach(Called(l, "unlockFile", toUnlock[k], toUnlock[k] \notin failing),
                    toUnlock, failing, k + 1)

InitLock ==
    /\ InitOrch
    /\ resultSignal = "finished"
    /\ sepEnv = BaseEnv(MixPath, 1, 1, 0, 0, 1)
    /\ sepOut = NoOut
    /\ featEnv = NoFeatEnv
    /\ featOut = NoFeat
    /\ tempRun = NoTemp
    /\ olaRun = NoOla
    /\ wavRun = NoWav
    /\ locker = NoLocker
    /\ repo = NoRepo

\* FileLocker::lockFile
LockFile(path, ok) ==
    /\ locker' = Called([locker EXCEPT !.calls = <<>>], "lockFile", path, ok)
    /\ UNCHANGED <<orchVars, sepEnv, sepOut, featEnv, featOut, tempRun, olaRun, wavRun, repo>>

\* FileLocker::unlockFile
UnlockFile(path, ok) ==
    /\ locker' = Called([locker EXCEPT !.calls = <<>>], "unlockFile", path, ok)
    /\ UNCHANGED <<orchVars, sepEnv, sepOut, featEnv, featOut, tempRun, olaRun, wavRun, repo>>

\* FileLocker::unlockAllFiles: the copy of the set is walked in the order the
\* hash set yields, which is any order
UnlockAllFiles(toUnlock, failing) ==
    /\ Len(toUnlock) = Cardinality(locker.m_lockedFiles)
    /\ {toUnlock[k] : k \in 1..Len(toUnlock)} = locker.m_lockedFiles
    /\ locker' = UnlockEach([locker EXCEPT !.calls = <<>>], toUnlock, failing, 1)
    /\ UNCHANGED <<orchVars, sepEnv, sepOut, featEnv, featOut, tempRun, olaRun, wavRun, repo>>

NextLock ==
    \/ \E path \in 1..MaxPaths, ok \in BOOLEAN : LockFile(path, ok)
    \/ \E path \in 1..MaxPaths, ok \in BOOLEAN : UnlockFile(path, ok)
    \/ \E n \in 0..MaxPaths :
          \E toUnlock \in [1..n -> 1..MaxPaths], failing \in SUBSET (1..MaxPaths) :
             UnlockAllFiles(toUnlock, failing)

SpecLock == InitLock /\ [][NextLock]_vars

\* -------------------------------------------- the repository specification
\* FileRepo's data of one file type.  A file path is the folder and the name
\* it names and whether it is written relative to the working directory; the
\* folders are given by absolute paths.
\*   paths    FileTypeData::paths     files    FileTypeData::files (the widget
\*   folders  the keys of FileTypeData::folders         of each key, numbered)
\*   widgets  the FileWidgets created so far
\*   replaced whether addSingleFile has inserted over an existing key
\*   emits    the signals of the last call (those a loop emits, one per file,
\*            are kept as one entry holding the files)
RepoFiles ==
    {[parts |-> <<d, n>>, relative |-> r] :
        d \in 1..MaxDirs, n \in 1..MaxNames, r \in BOOLEAN}

\* QFileInfo::absoluteFilePath, QDir::absoluteFilePath
AbsoluteFilePath(filePath) == [filePath EXCEPT !.relative = FALSE]

\* filePath.startsWith(folderPath + "/")
StartsWith(filePath, folderPath) ==
    /\ ~filePath.relative
    /\ Len(filePath.parts) > Len(folderPath)
    /\ SubSeq(filePath.parts, 1, Len(folderPath)) = folderPath

\* FileRepo::isDuplicate
isDuplicate(path) == path \in repo.paths

InitRepo ==
    /\ InitOrch
    /\ resultSignal = "finished"
    /\ sepEnv = BaseEnv(MixPath, 1, 1, 0, 0, 1)
    /\ sepOut = NoOut
    /\ featEnv = NoFeatEnv
    /\ featOut = NoFeat
    /\ tempRun = NoTemp
    /\ olaRun = NoOla
    /\ wavRun = NoWav
    /\ locker = NoLocker
    /\ repo = NoRepo

\* FileRepo::addFolder: entries are the names QDir::entryList finds (none
\* also when the folder does not exist)
AddFolder(folderPath, entries) ==
    /\ repo' =
         IF entries = {} THEN [repo EXCEPT !.emits = <<>>]
         ELSE LET newFiles == {f \in {[parts |-> Append(folderPath, n),
                                       relative |-> FALSE] : n \in entries} :
                                  ~isDuplicate(f)}
              IN [repo EXCEPT
                    !.folders = repo.folders \cup {folderPath},
                    !.paths = repo.paths \cup newFiles,
                    !.emits = (IF folderPath \in repo.folders THEN <<>>
                               ELSE << <<"folderAdded", {folderPath}>> >>)
                              \o (IF newFiles = {} THEN <<>>
                                  ELSE << <<"fileAdded", newFiles>> >>)]
    /\ UNCHANGED <<orchVars, sepEnv, sepOut, featEnv, featOut, tempRun, olaRun, wavRun, locker>>

\* FileRepo::addSingleFile: valid is whether the file exists, is readable and
\* has the suffix of the file type
AddSingleFile(filePath, valid) ==
    /\ repo.widgets < MaxWidgets
    /\ repo' =
         IF ~valid \/ isDuplicate(AbsoluteFilePath(filePath))
         THEN [repo EXCEPT !.emits = <<>>]
         ELSE [repo EXCEPT
                 !.widgets = repo.widgets + 1,
                 !.replaced = repo.replaced
                              \/ AbsoluteFilePath(filePath) \in DOMAIN repo.files,
                 !.files = (AbsoluteFilePath(filePath) :> (repo.widgets + 1))
                           @@ repo.files,
                 !.paths = repo.paths \cup {AbsoluteFilePath(filePath)},
                 !.emits = << <<"fileAdded", {AbsoluteFilePath(filePath)}>> >>]
    /\ UNCHANGED <<orchVars, sepEnv, sepOut, featEnv, featOut, tempRun, olaRun, wavRun, locker>>

\* FileRepo::removeFile
RemoveFile(filePath) ==
    /\ repo' =
         IF filePath \notin repo.paths THEN [repo EXCEPT !.emits = <<>>]
         ELSE [repo EXCEPT
                 !.paths = repo.paths \ {filePath},
                 !.files = [k \in DOMAIN repo.files \ {filePath} |-> repo.files[k]],
                 !.emits = << <<"fileRemoved", {filePath}>> >>]
    /\ UNCHANGED <<orchVars, sepEnv, sepOut, featEnv, featOut, tempRun, olaRun, wavRun, locker>>

\* FileRepo::removeFolder
RemoveFolder(folderPath) ==
    /\ repo' =
         IF folderPath \notin repo.folders THEN [repo EXCEPT !.emits = <<>>]
         ELSE LET toRemove == {f \in repo.paths : StartsWith(f, folderPath)}
              IN [repo EXCEPT
                    !.folders = repo.folders \ {folderPath},
                    !.paths = repo.paths \ toRemove,
                    !.emits = (IF toRemove = {} THEN <<>>
                               ELSE << <<"fileRemoved", toRemove>> >>)
                              \o << <<"folderRemoved", {folderPath}>> >>]
    /\ UNCHANGED <<orchVars, sepEnv, sepOut, featEnv, featOut, tempRun, olaRun, wavRun, locker>>

NextRepo ==
    \/ \E d \in 1..MaxDirs, entries \in SUBSET (1..MaxNames) : AddFolder(<<d>>, entries)
    \/ \E filePath \in RepoFiles, valid \in BOOLEAN : AddSingleFile(filePath, valid)
    \/ \E filePath \in RepoFiles : RemoveFile(filePath)
    \/ \E d \in 1..MaxDirs : RemoveFolder(<<d>>)

SpecRepo == InitRepo /\ [][NextRepo]_vars

\* -------------------------------------------- claims about the orchestrator
\* job j is in progress: its start lambda or its invocation is queued on a
\* worker thread, its slot runs on a worker thread, or one of its signals
\* waits for the main thread
Active(j) ==
    \/ \E k \in 1..Len(htsatQ) : htsatQ[k].job = j
    \/ \E k \in 1..Len(sepQ) : sepQ[k].job = j
    \/ htsatRun.job = j
    \/ sepRun.job = j
    \/ \E k \in 1..Len(mainQ) : mainQ[k].job = j
JobIds == 1..Len(jobs)
SepJobs == {j \in JobIds : jobs[j].kind = "sep"}
\* the Finished and the Error events emitted for file idx of job j
FinishedFor(j, idx) ==
    SelectSeq(log, LAMBDA e : e.ev = "Finished" /\ e.job = j /\ e.idx = idx)
ErrorsFor(j, idx) ==
    SelectSeq(log, LAMBDA e : e.ev = "Error" /\ e.job = j /\ e.idx = idx)
FinishedOfJob(j) == SelectSeq(log, LAMBDA e : e.ev = "Finished" /\ e.job = j)
TerminalOfJob(j) == SelectSeq(log, LAMBDA e : e.ev # "Started" /\ e.job = j)
\* nothing is queued and no slot runs: only a start call can follow
Quiescent ==
    /\ htsatQ = <<>> /\ sepQ = <<>> /\ mainQ = <<>>
    /\ htsatRun = Idle /\ sepRun = Idle

\* C1: in every reachable state at most one job is in progress; no second
\* worker invocation is queued or running while the first is.
C1_OneJobAtATime ==
    Cardinality({j \in JobIds : Active(j)}) <= 1

\* C2: isProcessing() is true exactly while an accepted job is in progress;
\* in particular it is never false while a worker is still processing.
C2_FlagReflectsJob ==
    m_isProcessing <=> (\E j \in JobIds : Active(j))

\* C3: every accepted separation job emits Finished exactly once, and only
\* after the last file of its list has completed or failed.
C3_FinishedOncePerJob ==
    \A j \in SepJobs :
        /\ Len(FinishedOfJob(j)) <= 1
        /\ \A k \in 1..Len(FinishedOfJob(j)) :
              FinishedOfJob(j)[k].idx = Len(jobs[j].files)
        /\ ~Active(j) => Len(FinishedOfJob(j)) = 1

\* C4: every accepted submission reaches a terminal event after which
\* isProcessing() is false; stated on the states in which nothing is left to
\* run, where a job without a terminal event never gets one and a flag still
\* set rejects every later submission.
C4_AcceptedJobTerminates ==
    Quiescent =>
        /\ ~m_isProcessing
        /\ \A j \in JobIds : TerminalOfJob(j) # <<>>

\* C5: in a separation job each failing file contributes exactly one Error
\* event: never more than one, and exactly one once the job is over unless
\* its result was saved.
C5_OneErrorPerFailingFile ==
    \A j \in SepJobs : \A idx \in 1..Len(jobs[j].files) :
        /\ Len(ErrorsFor(j, idx)) <= 1
        /\ ~Active(j) =>
              LET saved == \E k \in 1..Len(FinishedFor(j, idx)) :
                              FinishedFor(j, idx)[k].saved
              IN Len(ErrorsFor(j, idx)) = (IF saved THEN 0 ELSE 1)

\* C6: the path list of a separation job's Finished event holds a result
\* path only if the WAV of that mixture was written; a file whose save failed
\* is not listed.
C6_ListedOnlyIfSaved ==
    \A j \in SepJobs : \A k \in 1..Len(FinishedOfJob(j)) :
        FinishedOfJob(j)[k].results # <<>> => FinishedOfJob(j)[k].saved

\* the jobs with an invocation on a worker: those of the lambdas and of the
\* queued calls in the worker's event queue q (the placeholder lambdas, of job
\* 0, invoke nothing), and the one whose slot the worker is executing
Invoked(q, run) == ({q[k].job : k \in 1..Len(q)} \cup {run.job}) \ {0}
\* no job has two invocations on the worker
InvokedOnce(q, run) ==
    /\ \A k \in 1..Len(q) : q[k].job # 0 => q[k].job # run.job
    /\ \A k, l \in 1..Len(q) : (k < l /\ q[k].job # 0) => q[k].job # q[l].job
\* a step that touches what Invoked holds: a submission is accepted, an event
\* queue of a worker changes, or a worker takes up or ends a run
InvocationStep ==
    \/ jobs' # jobs
    \/ htsatQ' # htsatQ \/ sepQ' # sepQ
    \/ htsatRun'.job # htsatRun.job \/ sepRun'.job # sepRun.job

\* C27: each accepted submission causes exactly one worker invocation, with
\* its own file list and name: the step that accepts job j posts one lambda of
\* job j to the worker of its kind and nothing else; no job ever has two
\* invocations, or one on the worker of the other kind; no other step adds an
\* invocation, of an earlier job or of any, and an invocation ends only with
\* the return of its run.
C27_OneInvocationPerJob ==
    [][InvocationStep =>
       LET newJobs == (Len(jobs) + 1)..Len(jobs')
       IN /\ Len(jobs') <= Len(jobs) + 1
          /\ InvokedOnce(htsatQ', htsatRun') /\ InvokedOnce(sepQ', sepRun')
          /\ \A j \in Invoked(htsatQ', htsatRun') : jobs'[j].kind = "htsat"
          /\ \A j \in Invoked(sepQ', sepRun') : jobs'[j].kind = "sep"
          /\ Invoked(htsatQ', htsatRun') \cup Invoked(sepQ', sepRun')
                = ((Invoked(htsatQ, htsatRun) \cup Invoked(sepQ, sepRun))
                      \ ({j \in {htsatRun.job} : htsatRun' = Idle}
                            \cup {j \in {sepRun.job} : sepRun' = Idle}))
                  \cup newJobs
          /\ Len(htsatQ') + Len(sepQ') <= Len(htsatQ) + Len(sepQ) + Len(jobs') - Len(jobs)]_vars

\* a separation job accepted after a feature job is running on the separation
\* worker, and nothing is queued for the HTSAT worker
C27_Witness ==
    /\ Len(jobs) = 2
    /\ jobs[1].kind = "htsat" /\ jobs[2].kind = "sep"
    /\ sepRun.pc # "idle" /\ sepRun.job = 2
    /\ htsatQ = <<>> /\ htsatRun = Idle

\* C28: within one separation job two different mixture files are never mapped
\* to the same result path: no two results written for different files of a
\* job are written to one path.
C28_DistinctResultPaths ==
    \A j \in SepJobs :
        \A k, l \in 1..Len(FinishedOfJob(j)) :
            LET a == FinishedOfJob(j)[k]
                b == FinishedOfJob(j)[l]
            IN (a.saved /\ b.saved
                  /\ jobs[j].files[a.idx] # jobs[j].files[b.idx]) =>
                   /\ a.results # b.results
                   /\ OutputPath(jobs[j].files[a.idx], jobs[j].name)
                         # OutputPath(jobs[j].files[b.idx], jobs[j].name)

\* ----------------------------------------------- claims about the pipeline
\* the separationFinished signals of the run, and whether it succeeded
FinishedOf(out) == SelectSeq(out.emits, LAMBDA e : e.sig = "separationFinished")
ErrorsOf(out) == SelectSeq(out.emits, LAMBDA e : e.sig = "error")
Succeeded == sepOut.ran /\ FinishedOf(sepOut) # <<>>
\* the separator returned, for every chunk, a chunk as long as its input
SameLengthSeparator == \A c \in 1..Len(sepOut.chunks) :
                          Size(sepOut.chunks[c], 1) = Size(sepOut.inputs[c], 1)
\* the chunker ran: the mixture was decoded as mono and the model and the
\* feature were loaded
MonoChunked == /\ sepOut.ran
               /\ sepEnv.channels = 1
               /\ sepEnv.readable /\ sepEnv.loadOk /\ sepEnv.modelOk
               /\ sepEnv.feature = "ok"

\* C7: a mixture of L >= 1 frames whose separation succeeds, with a separator
\* that returns chunks as long as its input, hands the writer a tensor of
\* exactly L frames and the channel count of the input.
C7_LengthPreserved ==
    (Succeeded /\ SameLengthSeparator) =>
        LET t == normalizeTensorShape(FinishedOf(sepOut)[1].tensor)
        IN /\ Len(FinishedOf(sepOut)) = 1
           /\ t.defined
           /\ Size(t, 0) = sepEnv.len
           /\ Size(t, 1) = sepEnv.channels

\* a stereo mixture longer than the clip, and a mono one shorter than the step,
\* have been separated
C7_Witness ==
    /\ Succeeded /\ SameLengthSeparator
    /\ sepEnv.channels = 2
    /\ sepEnv.len > m_clipSamples
    /\ sepEnv.len % StepOf(m_clipSamples) # 0

\* C8: the accumulated window weight is at least 1 (at least
\* WinDen, in units of 1/WinDen) at every sample index in [0, L).
C8_WeightAtLeastOne ==
    Succeeded =>
        \A c \in 1..Len(sepOut.olas) :
            LET acc == OverlapAddAccumulate(sepOut.olas[c])
                D == WinDen(FadeOf(Size(sepOut.olas[c][1], 1)))
            IN \A n \in 0..(sepEnv.len - 1) : acc.weight[n] >= D

\* C9: with a separator that returns each chunk unchanged, a
\* constant mixture of value c comes out as c at every index in [0, L).
C9_ConstantPreserved ==
    (Succeeded /\ sepEnv.channels = 1 /\ sepEnv.left > 0 /\ sepEnv.gain = 1
       /\ sepEnv.sepAt = 0) =>
        \A n \in 1..sepEnv.len :
            FinishedOf(sepOut)[1].tensor.data[n] = Rat(sepEnv.left, 1)

\* C10 as claimed: a mono mixture of 1 <= L < CLIP samples is split into
\* exactly one chunk.
C10_OneChunkBelowClip ==
    (MonoChunked /\ sepEnv.sepAt = 0 /\ sepEnv.len < m_clipSamples) =>
        Len(sepOut.inputs) = 1

\* C10 as amended: a mono mixture of 1 <= L <= STEP samples is split into
\* exactly one chunk, and overlap-add receives that single chunk.
C10_OneChunkUpToStep ==
    (MonoChunked /\ sepEnv.sepAt = 0 /\ sepEnv.len <= StepOf(m_clipSamples)) =>
        /\ Len(sepOut.inputs) = 1
        /\ Len(sepOut.olas) = 1
        /\ Len(sepOut.olas[1]) = 1

\* a mono mixture of exactly STEP samples has been chunked
C10_Witness ==
    /\ MonoChunked /\ sepEnv.sepAt = 0
    /\ sepEnv.len = StepOf(m_clipSamples)
    /\ Len(sepOut.inputs) = 1
\* the step of the chunker as the claims state it: floor(CLIP * (1 - overlap))
NominalStep == (m_clipSamples * (OverlapDen - OverlapNum)) \div OverlapDen
\* the number of chunks of a channel as the claims state it: ceil(L / STEP)
NominalChunks == (sepEnv.len + NominalStep - 1) \div NominalStep
\* the chunk loop was entered: the mixture was decoded as mono or stereo and
\* the model and a feature of the expected size were loaded
Chunked ==
    /\ sepOut.ran
    /\ sepEnv.readable /\ sepEnv.loadOk /\ sepEnv.modelOk
    /\ sepEnv.feature = "ok"
    /\ sepEnv.channels \in {1, 2}
    /\ sepEnv.channels = 2 => sepEnv.reloadOk
\* every separator call returned a chunk as long as its input, so that the
\* chunk loop of every channel ran to its end
FullyChunked == Chunked /\ sepEnv.sepAt = 0
\* the i-th chunk given to the separator: its index in its channel (from 0)
\* and the kind of waveform of that channel
ChunkIndex(i) == (i - 1) % NominalChunks
ChunkChannelKind(i) ==
    IF i <= NominalChunks THEN sepEnv.left ELSE sepEnv.right

\* C11: a non-empty channel of L samples is cut into exactly ceil(L/STEP)
\* chunks, at least one, in the mono and in the per-channel loop alike; chunk
\* i starts at sample i*STEP, which is below L (on the ramp waveform the first
\* sample of a chunk identifies its start).
C11_ChunkCountAndStarts ==
    FullyChunked =>
        /\ NominalChunks >= 1
        /\ Len(sepOut.inputs) = sepEnv.channels * NominalChunks
        /\ \A i \in 1..Len(sepOut.inputs) :
              /\ ChunkIndex(i) * NominalStep < sepEnv.len
              /\ ChunkChannelKind(i) = 0 =>
                    sepOut.inputs[i].data[1] = ChunkIndex(i) * NominalStep + 1

\* a stereo ramp mixture of a multiple of STEP samples, longer than the step,
\* was cut
C11_Witness ==
    /\ FullyChunked
    /\ sepEnv.channels = 2
    /\ sepEnv.left = 0 /\ sepEnv.right = 0
    /\ sepEnv.len > NominalStep
    /\ sepEnv.len % NominalStep = 0
    /\ Len(sepOut.inputs) >= 4

\* C12: every chunk given to the separator is (1, CLIP, 1); its sample k is
\* the channel's sample i*STEP + k where that index is below L and zero
\* elsewhere.
C12_ChunkContent ==
    Chunked =>
        \A i \in 1..Len(sepOut.inputs) :
            /\ sepOut.inputs[i].shape = <<1, m_clipSamples, 1>>
            /\ Len(sepOut.inputs[i].data) = m_clipSamples
            /\ \A k \in 0..(m_clipSamples - 1) :
                  sepOut.inputs[i].data[k + 1] =
                      IF ChunkIndex(i) * NominalStep + k < sepEnv.len
                      THEN Sample(ChunkChannelKind(i), ChunkIndex(i) * NominalStep + k)
                      ELSE 0

\* a stereo mixture whose last chunk of each channel is padded was cut
C12_Witness ==
    /\ FullyChunked
    /\ sepEnv.channels = 2
    /\ sepEnv.len % NominalStep # 0
    /\ Len(sepOut.inputs) >= 4
    /\ sepOut.inputs[Len(sepOut.inputs)].data[m_clipSamples] = 0

\* C13: a feature file whose number of tokens is not the expected one makes
\* the file fail: an Error is emitted, no chunk is given to the separator and
\* no result is produced.
C13_WrongFeatureSizeRejected ==
    (sepOut.ran /\ sepEnv.readable /\ sepEnv.loadOk /\ sepEnv.modelOk
       /\ sepEnv.channels \in {1, 2} /\ sepEnv.reloadOk
       /\ sepEnv.feature \in {"fewer", "more"}) =>
        /\ ErrorsOf(sepOut) # <<>>
        /\ FinishedOf(sepOut) = <<>>
        /\ sepOut.inputs = <<>>
\* C14: in a feature job in which a file yields an embedding (its worker
\* emits finished), no failure before that, of another file or of the first
\* model load, has emitted an Error event or cleared the busy flag: when the
\* finished signal reaches the main thread, no Error of the job has been
\* emitted and none is queued ahead of it.
C14_SoftFailuresSilent ==
    \A k \in 1..Len(mainQ) :
        mainQ[k].sig = "finished" =>
            /\ \A n \in 1..Len(log) :
                  ~(log[n].ev = "Error" /\ log[n].job = mainQ[k].job)
            /\ \A n \in 1..(k - 1) :
                  ~(mainQ[n].sig = "error" /\ mainQ[n].job = mainQ[k].job)
\* the start lambdas queued on the worker threads
StartLambdas ==
    SelectSeq(htsatQ \o sepQ, LAMBDA e : e.ev = "lambda")
\* the Started events emitted so far
StartedEvents == SelectSeq(log, LAMBDA e : e.ev = "Started")
\* a call of either start method, with any arguments
StartCall ==
    \/ \E n \in 0..MaxFiles, name \in {"", "F"} :
          StartFeatureGeneration(FileList(n), name)
    \/ \E n \in 0..MaxFiles : StartAudioSeparation(FileList(n), "F")

\* C17: a submission made while the orchestrator is busy changes nothing: the
\* call leaves every variable of the orchestrator as it is, and no step taken
\* while busy accepts a job, emits Started, queues a start lambda or touches
\* the connection of the job in flight.
C17_RejectedSubmissionNoEffect ==
    [][m_isProcessing =>
          /\ StartCall => UNCHANGED orchVars
          /\ jobs' = jobs
          /\ conns' = conns
          /\ StartedEvents' = StartedEvents
          /\ Len(StartLambdas') <= Len(StartLambdas)]_vars

\* the orchestrator is busy with a job in flight and a further start call is
\* made
C17_Witness ==
    /\ m_isProcessing
    /\ \E j \in JobIds : Active(j)
    /\ sepRun.pc = "files"
    /\ Bounded(<<>>)

\* C18: once the separation model failed to load for a file of a job, no
\* later file of the list is attempted: the worker emits nothing for a later
\* file of that job.
C18_ModelLoadFailureAbortsJob ==
    \A j \in SepJobs :
        \A a \in 1..Len(log), b \in 1..Len(log) :
            (log[a].ev = "Error" /\ log[a].job = j /\ log[a].modelLoad) =>
                ~(log[b].job = j /\ log[b].ev # "Started" /\ log[b].idx > log[a].idx)

\* the values of the progress events of the file, in the order of emission
ProgressValues ==
    LET p == SelectSeq(sepOut.emits, LAMBDA e : e.sig = "progress")
    IN [k \in 1..Len(p) |-> p[k].value]
\* a stereo mixture went through the channel loops with a separator that
\* answered every chunk: the progress events are the reset of
\* processSingleFileStereo, those of the left chunks, then those of the right
StereoChunked == FullyChunked /\ sepEnv.channels = 2
LeftProgress == SubSeq(ProgressValues, 1, 1 + NominalChunks)
RightProgress == SubSeq(ProgressValues, 2 + NominalChunks, Len(ProgressValues))

\* C20: for a stereo mixture every progress event of the left channel has a
\* value in 0..50 and every progress event of the right channel a value in
\* 50..100, the events of the left channel (one per chunk, after the reset)
\* coming before those of the right channel.
C20_StereoProgressRanges ==
    StereoChunked =>
        /\ Len(ProgressValues) >= 1 + NominalChunks
        /\ Len(ProgressValues) <= 1 + 2 * NominalChunks
        /\ \A k \in 1..Len(LeftProgress) : LeftProgress[k] \in 0..50
        /\ \A k \in 1..Len(RightProgress) : RightProgress[k] \in 50..100

\* what the workers have emitted, in order: the events the main thread has
\* handled, then the signals still queued to it; of each the job, the file
\* index and whether it reports a result (job 0: a Started event)
Emitted ==
    [k \in 1..(Len(log) + Len(mainQ)) |->
        IF k <= Len(log)
        THEN IF log[k].ev = "Started"
             THEN [job |-> 0, idx |-> 0, result |-> FALSE]
             ELSE [job |-> log[k].job, idx |-> log[k].idx,
                   result |-> log[k].ev = "Finished"]
        ELSE [job |-> mainQ[k - Len(log)].job, idx |-> mainQ[k - Len(log)].idx,
              result |-> mainQ[k - Len(log)].sig = "separationFinished"]]

\* C19: within a separation job the files are processed in the order of the
\* submitted list, one at a time, and the result paths are reported in that
\* order: the events of a job never step back to an earlier file nor ahead of
\* the file the worker is at, results come by strictly increasing file, and
\* each reported path is the output path of the file it was emitted for.
C19_SubmissionOrder ==
    LET e == Emitted
    IN \A a \in 1..Len(e) :
          (e[a].job >= 1 /\ jobs[e[a].job].kind = "sep") =>
              /\ e[a].idx >= 1
              /\ sepRun.job = e[a].job => e[a].idx <= sepRun.idx
              /\ \A b \in (a + 1)..Len(e) :
                    e[b].job = e[a].job =>
                        /\ e[a].idx <= e[b].idx
                        /\ e[a].result /\ e[b].result => e[a].idx < e[b].idx
              /\ (a <= Len(log) /\ e[a].result) =>
                    log[a].results =
                        <<OutputPath(jobs[log[a].job].files[log[a].idx],
                                     jobs[log[a].job].name)>>

\* both files of a job of two have been separated and reported
C19_Witness ==
    \E j \in SepJobs :
        /\ Len(jobs[j].files) = 2
        /\ Len(FinishedOfJob(j)) = 2

\* C21: in the mono path the progress event emitted after chunk i (from 0) of
\* N carries floor(100*(i+1)/N), so that 100 comes with the last chunk only.
C21_MonoProgressFraction ==
    (MonoChunked /\ sepEnv.sepAt = 0) =>
        /\ Len(ProgressValues) = NominalChunks
        /\ \A k \in 1..Len(ProgressValues) :
              ProgressValues[k] = (100 * k) \div NominalChunks

\* sample k (from 0) of the separator's output for the chunk that starts at
\* sample start of channel c: gain times the mixture sample, zero past the end
SeparatedSample(c, start, k) ==
    IF start + k < sepEnv.len
    THEN sepEnv.gain * Sample(IF c = 1 THEN sepEnv.left ELSE sepEnv.right, start + k)
    ELSE 0
\* what the chunks from the i-th on add to output[n] (weighted = TRUE) and to
\* weight[n] (weighted = FALSE) when chunk j covers [j*STEP, j*STEP + CLIP)
RECURSIVE AddedAt(_, _, _, _)
AddedAt(chunks, n, i, weighted) ==
    IF i > Len(chunks) THEN 0
    ELSE LET start == (i - 1) * NominalStep
         IN (IF n >= start /\ n < start + m_clipSamples
             THEN (IF weighted THEN chunks[i].data[n - start + 1] ELSE 1)
                  * Window(m_clipSamples, n - start)
             ELSE 0)
            + AddedAt(chunks, n, i + 1, weighted)

\* C26: with a separator that returns chunks as long as its input, the i-th
\* tensor (from 0) given to overlap-add for a channel is the separator output
\* of the chunk that starts at i*STEP, and overlap-add adds it, windowed, to the
\* output range [i*STEP, i*STEP + CLIP) and nowhere else; for a mono mixture
\* the emitted result is that sum over the summed windows.
C26_ChunksInStartOrder ==
    (Succeeded /\ SameLengthSeparator) =>
        /\ Len(sepOut.olas) = sepEnv.channels
        /\ \A c \in 1..Len(sepOut.olas) :
              LET chunks == sepOut.olas[c]
                  acc == OverlapAddAccumulate(chunks)
              IN /\ Len(chunks) = NominalChunks
                 /\ \A i \in 1..Len(chunks) :
                       /\ chunks[i] = sepOut.chunks[(c - 1) * NominalChunks + i]
                       /\ chunks[i].shape = <<1, m_clipSamples, 1>>
                       /\ \A k \in 0..(m_clipSamples - 1) :
                             chunks[i].data[k + 1] =
                                 SeparatedSample(c, (i - 1) * NominalStep, k)
                 /\ DOMAIN acc.output =
                       0..((NominalChunks - 1) * NominalStep + m_clipSamples - 1)
                 /\ \A n \in DOMAIN acc.output :
                       /\ acc.output[n] = AddedAt(chunks, n, 1, TRUE)
                       /\ acc.weight[n] = AddedAt(chunks, n, 1, FALSE)
        /\ sepEnv.channels = 1 =>
              \A n \in 0..(sepEnv.len - 1) :
                  FinishedOf(sepOut)[1].tensor.data[n + 1] =
                      Rat(AddedAt(sepOut.olas[1], n, 1, TRUE),
                          IF AddedAt(sepOut.olas[1], n, 1, FALSE) = 0
                          THEN WinDen(FadeOf(m_clipSamples))
                          ELSE AddedAt(sepOut.olas[1], n, 1, FALSE))

\* a ramp mixture cut into three or more chunks, the last one padded, has been
\* separated with a gain and overlap-added
C26_Witness ==
    /\ Succeeded /\ SameLengthSeparator
    /\ sepEnv.left = 0 /\ sepEnv.gain >= 1
    /\ Len(sepOut.olas[1]) >= 3
    /\ sepEnv.len % NominalStep # 0
    /\ sepOut.olas[1][2].data[1] = sepEnv.gain * (NominalStep + 1)

\* ---------------------------------------- claims about the temporary files
\* C22: every temporary file an operation created or consumed (the model
\* temporary file, temp_chunks/mono.wav, the chunk files of the file-based
\* overlap-add) is deleted or scheduled for deletion when the operation
\* returns, on every exit path.
C22_TempFilesReleased ==
    \A f \in tempRun.created \cup tempRun.consumed :
        f \notin tempRun.exists \/ f \in tempRun.scheduled

\* C23: the overlap-add over chunk outputs read back from chunk files yields
\* the same output as the overlap-add over the same chunk outputs held in
\* memory.
C23_FileOverlapAddSame ==
    (olaRun.ran /\ \A k \in 1..Len(olaRun.loaded) : Numel(olaRun.loaded[k]) # 0) =>
        olaRun.files = olaRun.memory

\* ------------------------------------------------- claims about the writer
\* the frames and channels of the tensor the writer wrote
WrittenFrames == Size(normalizeTensorShape(wavRun.waveform), 0)
WrittenChannels == Size(normalizeTensorShape(wavRun.waveform), 1)

\* C24: for every written result of C channels and T frames the stored header
\* fields are: data size T*C*4, RIFF size 36 + T*C*4, byte rate rate*C*4,
\* block align C*4, bits per sample 32, format 3; no field wraps around.
C24_HeaderFields ==
    (wavRun.ran /\ wavRun.ok) =>
        LET h == wavRun.header[1]
            bytes == Times4(WrittenFrames * WrittenChannels)
        IN /\ h.dataSize = bytes
           /\ h.riffSize = Plus36(bytes)
           /\ h.byteRate = IntLimbs(SampleRate * WrittenChannels * 4)
           /\ h.blockAlign = WrittenChannels * 4
           /\ h.bitsPerSample = 32
           /\ h.format = 3

\* C29: a failed save leaves the file system as it was: no new file at the
\* output path, and a result that was there keeps its content.
C29_FailedSaveLeavesFile ==
    (wavRun.ran /\ ~wavRun.ok) => wavRun.after = wavRun.before

\* ------------------------------------------------- claims about the locker
\* C25: in every call of lockFile and unlockFile, those unlockAllFiles makes
\* included, lockFile(p) returns true exactly when p was not locked and the
\* read-only operation succeeded; unlockFile(p) returns true exactly when p was
\* locked and the operation succeeded; a call that returns false leaves the
\* locked set unchanged and emits no signal; isFileLocked(p) is true exactly for
\* the paths whose last successful operation was a lock.
C25_LockerContract ==
    /\ \A k \in 1..Len(locker.calls) :
          LET c == locker.calls[k]
          IN /\ c.fn = "lockFile" => (c.ret <=> (c.path \notin c.before /\ c.ok))
             /\ c.fn = "unlockFile" => (c.ret <=> (c.path \in c.before /\ c.ok))
             /\ ~c.ret => (c.after = c.before /\ c.signals = <<>>)
    /\ \A p \in 1..MaxPaths : isFileLocked(p) <=> locker.last[p] = "lock"

\* unlockAllFiles has unlocked one file and failed on another, which is still
\* locked, after both were locked
C25_Witness ==
    /\ Len(locker.calls) = 2
    /\ \E j, k \in 1..2 :
          /\ locker.calls[j].ret /\ ~locker.calls[k].ret
          /\ locker.calls[k].fn = "unlockFile"
          /\ isFileLocked(locker.calls[k].path)
          /\ locker.last[locker.calls[j].path] = "unlock"

\* --------------------------------------------- claims about the repository
\* C30: every key of the single-file map is a member of the paths set, and
\* addSingleFile never replaces an existing entry of the single-file map.
C30_SingleFilesInPaths ==
    /\ DOMAIN repo.files \subseteq repo.paths
    /\ ~repo.replaced

\* ------------------------------------------ claims about the feature pipeline
\* the embeddings of the query files that succeed, in order: none when the
\* model does not load
Successful ==
    IF LoadHtsatModel(featEnv.model).ok
    THEN SelectSeq(featEnv.files, LAMBDA f : f.kind = "ok")
    ELSE <<>>
\* the sum of element i over the successful files
RECURSIVE SumOfSuccessful(_, _)
SumOfSuccessful(fs, i) ==
    IF fs = <<>> THEN 0 ELSE Head(fs).emb[i] + SumOfSuccessful(Tail(fs), i)
\* the finished signal of the worker, if it emitted one
WorkerFinished ==
    SelectSeq(featOut.emits, LAMBDA e : e.sig = "finished")

\* C15: with N >= 1 successful query files the embedding handed to the
\* writer is, element by element, the sum of the N successful embeddings
\* divided by N; failed files count neither in the sum nor in N.
C15_AverageOfSuccessful ==
    (featOut.pc # "start" /\ Len(Successful) >= 1 /\ featEnv.name # "") =>
        /\ Len(WorkerFinished) = 1
        /\ Len(WorkerFinished[1].avgEmb) = EXPECTED_CONDITION_DIM
        /\ \A i \in 1..EXPECTED_CONDITION_DIM :
              WorkerFinished[1].avgEmb[i]
                  = Rat(SumOfSuccessful(Successful, i), Len(Successful))

\* a job of a failing file and a file with a non-zero embedding has run
C15_Witness ==
    /\ featOut.pc # "start"
    /\ Len(Successful) >= 1
    /\ Len(Successful) < Len(featEnv.files)
    /\ \E i \in 1..EXPECTED_CONDITION_DIM : SumOfSuccessful(Successful, i) > 0

\* C16: the destination of a new feature file is the path without suffix if
\* it is free, else the path with the smallest suffix k >= 1 that is free;
\* the chosen path did not exist, and the files that existed remain.
C16_UniqueFeaturePath ==
    (featOut.pc = "done" /\ featOut.path # <<>>) =>
        /\ featOut.path[1].k \notin featEnv.exists
        /\ \A j \in 0..(featOut.path[1].k - 1) : j \in featEnv.exists
        /\ featOut.path[1] \notin ExistingFeatures(featEnv)
        /\ ExistingFeatures(featEnv) \subseteq featOut.written

\* a feature was saved into a folder that held the path without suffix and
\* the path with suffix 1
C16_Witness ==
    /\ featOut.pc = "done" /\ featOut.event = "Finished"
    /\ {0, 1} \subseteq featEnv.exists
    /\ featOut.path[1].k = 2
====
